---- MODULE Spec2Model ----
(***************************************************************************)
(* Template resolution and rendering pipeline of the resume template       *)
(* engine: the TemplateManager registry (discovery scan, process-wide      *)
(* cache, binding by naming convention), the LaTeX escaper of the markup   *)
(* renderers and the /generate facade.                                     *)
(*                                                                         *)
(* Python strings are sequences of one-character strings, so that          *)
(* startswith, endswith, split, capitalize and replace are computed.       *)
(* Optional values are records [is_none, value].                           *)
(***************************************************************************)
EXTENDS Integers, Sequences, FiniteSets, TLC

\* ------------------------------------------------------------------ bounds

MaxInst == 1
NThreads == 2
MaxLen == 2
MaxTmp == 2
MaxItems == 2

\* ------------------------------------------------------------ string data

resume == <<"r", "e", "s", "u", "m", "e">>
cover_letter == <<"c", "o", "v", "e", "r", "_", "l", "e", "t", "t", "e", "r">>
pycache == <<"_", "_", "p", "y", "c", "a", "c", "h", "e", "_", "_">>
dot_git == <<".", "g", "i", "t">>
init_py == <<"_", "_", "i", "n", "i", "t", "_", "_", ".", "p", "y">>
nonexistentcategory == <<"n", "o", "n", "e", "x", "i", "s", "t", "e", "n", "t", "c", "a", "t", "e", "g", "o", "r", "y">>
goodone == <<"g", "o", "o", "d", "o", "n", "e">>
badhelpername == <<"b", "a", "d", "h", "e", "l", "p", "e", "r", "n", "a", "m", "e">>
missinghelper == <<"m", "i", "s", "s", "i", "n", "g", "h", "e", "l", "p", "e", "r">>
nosuchtemplate == <<"n", "o", "s", "u", "c", "h", "t", "e", "m", "p", "l", "a", "t", "e">>
notex == <<"n", "o", "t", "e", "x">>
clgood == <<"c", "l", "g", "o", "o", "d">>
hooks == <<"h", "o", "o", "k", "s">>
readme_md == <<"R", "E", "A", "D", "M", "E", ".", "m", "d">>
helper_py == <<"h", "e", "l", "p", "e", "r", ".", "p", "y">>
template_tex == <<"t", "e", "m", "p", "l", "a", "t", "e", ".", "t", "e", "x">>
preview_png == <<"p", "r", "e", "v", "i", "e", "w", ".", "p", "n", "g">>
dot_tex == <<".", "t", "e", "x">>
dunder == <<"_", "_">>
underscore == "_"
HelperSuffix == <<"H", "e", "l", "p", "e", "r">>
templates_default == <<"t", "e", "m", "p", "l", "a", "t", "e", "s">>
TEST_TEMPLATES_DIR == <<"t", "e", "s", "t", "_", "t", "e", "m", "p", "l", "a", "t", "e", "s", "_", "d", "i", "r">>
GoodoneResumeHelper == <<"G", "o", "o", "d", "o", "n", "e", "R", "e", "s", "u", "m", "e", "H", "e", "l", "p", "e", "r">>
BadNameResume == <<"B", "a", "d", "N", "a", "m", "e", "R", "e", "s", "u", "m", "e">>
ClgoodCoverLetterHelper == <<"C", "l", "g", "o", "o", "d", "C", "o", "v", "e", "r", "L", "e", "t", "t", "e", "r", "H", "e", "l", "p", "e", "r">>
MissinghelperResumeHelper == <<"M", "i", "s", "s", "i", "n", "g", "h", "e", "l", "p", "e", "r", "R", "e", "s", "u", "m", "e", "H", "e", "l", "p", "e", "r">>
private_name == <<"_", "p", "r", "i", "v", "a", "t", "e">>
dunder_name == <<"_", "_", "n", "a", "m", "e", "_", "_">>
LowerLetters == <<"a", "b", "c", "d", "e", "f", "g", "h", "i", "j", "k", "l", "m", "n", "o", "p", "q", "r", "s", "t", "u", "v", "w", "x", "y", "z">>
UpperLetters == <<"A", "B", "C", "D", "E", "F", "G", "H", "I", "J", "K", "L", "M", "N", "O", "P", "Q", "R", "S", "T", "U", "V", "W", "X", "Y", "Z">>

\* ------------------------------------------------------ Python primitives

Range(s) == {s[i] : i \in DOMAIN s}

None == [is_none |-> TRUE, value |-> <<>>]
Some(v) == [is_none |-> FALSE, value |-> v]

\* str.startswith / str.endswith
StartsWith(s, p) == Len(s) >= Len(p) /\ SubSeq(s, 1, Len(p)) = p
EndsWith(s, p) == Len(s) >= Len(p) /\ SubSeq(s, Len(s) - Len(p) + 1, Len(s)) = p

IndexIn(c, letters) == CHOOSE i \in DOMAIN letters : letters[i] = c
ToUpper(c) == IF c \in Range(LowerLetters) THEN UpperLetters[IndexIn(c, LowerLetters)] ELSE c
ToLower(c) == IF c \in Range(UpperLetters) THEN LowerLetters[IndexIn(c, UpperLetters)] ELSE c

\* str.capitalize(): first character upper-cased, the rest lower-cased
Capitalize(s) == [i \in DOMAIN s |-> IF i = 1 THEN ToUpper(s[i]) ELSE ToLower(s[i])]

\* str.split(sep) for a one-character separator
RECURSIVE SplitFrom(_, _, _, _)
SplitFrom(s, sep, i, cur) ==
    IF i > Len(s) THEN <<cur>>
    ELSE IF s[i] = sep THEN <<cur>> \o SplitFrom(s, sep, i + 1, <<>>)
    ELSE SplitFrom(s, sep, i + 1, Append(cur, s[i]))
Split(s, sep) == SplitFrom(s, sep, 1, <<>>)

\* ''.join(parts), halving the list so that long texts nest shallowly
RECURSIVE Join(_)
Join(parts) ==
    IF parts = <<>> THEN <<>>
    ELSE IF Len(parts) = 1 THEN parts[1]
    ELSE Join(SubSeq(parts, 1, Len(parts) \div 2))
             \o Join(SubSeq(parts, Len(parts) \div 2 + 1, Len(parts)))

\* os.path.join: a path is the sequence of its components
PathJoin(path, name) == Append(path, name)

\* ------------------------------------------------------------- file system

\* A directory entry of a template variant directory, of a category directory
\* and of the root.  files is os.listdir of the variant directory, module the
\* identifiers dir(module) reports once helper.py is executed.
TemplateDir(name, files, module) ==
    [name |-> name, isdir |-> TRUE, files |-> files, module |-> module]
CategoryDir(name, children) == [name |-> name, isdir |-> TRUE, children |-> children]
PlainFile(name) == [name |-> name, isdir |-> FALSE, children |-> <<>>, files |-> <<>>, module |-> {}]

\* The fixture of the test suite, with the entries a checkout adds.
LayoutFixture ==
    << CategoryDir(resume,
          << TemplateDir(goodone, <<helper_py, template_tex>>, {GoodoneResumeHelper, dunder_name}),
             TemplateDir(badhelpername, <<helper_py, template_tex>>, {BadNameResume, private_name, dunder_name}),
             TemplateDir(missinghelper, <<template_tex>>, {}),
             TemplateDir(notex, <<helper_py, preview_png>>, {dunder_name}),
             TemplateDir(pycache, <<helper_py, template_tex>>, {dunder_name}),
             PlainFile(readme_md) >>),
       CategoryDir(cover_letter,
          << TemplateDir(clgood, <<template_tex, helper_py>>, {ClgoodCoverLetterHelper, dunder_name}) >>),
       CategoryDir(pycache, << >>),
       CategoryDir(dot_git,
          << TemplateDir(hooks, <<helper_py, template_tex>>, {dunder_name}) >>),
       PlainFile(init_py) >>

\* A later state of the same tree: missinghelper got its helper.py, goodone
\* lost it, the cover letters are gone.
LayoutChanged ==
    << CategoryDir(resume,
          << TemplateDir(missinghelper, <<template_tex, helper_py>>, {MissinghelperResumeHelper, dunder_name}),
             TemplateDir(goodone, <<template_tex>>, {}) >>) >>

\* os.makedirs(TEST_TEMPLATES_DIR) alone: an existing, empty root
LayoutEmpty == << >>

Layouts == {LayoutFixture, LayoutChanged, LayoutEmpty}
Roots == {templates_default, TEST_TEMPLATES_DIR}

Removed == [exists |-> FALSE, entries |-> << >>]
Present(layout) == [exists |-> TRUE, entries |-> layout]

\* os.path.exists(root)
PathExists(fsv, dir) == fsv[dir].exists

\* os.path.isdir(os.path.join(parent, entry))
IsDir(entry) == entry.isdir

\* ------------------------------------------------------- TemplateManager

Return(v) == [status |-> "return", exc |-> "", text |-> "", arg |-> <<>>, attrs |-> {}, value |-> v]
Raise(exc, text, arg, attrs) ==
    [status |-> "raise", exc |-> exc, text |-> text, arg |-> arg, attrs |-> attrs, value |-> <<>>]
NoResult == [status |-> "none", exc |-> "", text |-> "", arg |-> <<>>, attrs |-> {}, value |-> <<>>]

\* tex_files = [f for f in os.listdir(template_path) if f.endswith('.tex')]
TexFiles(files) == SelectSeq(files, LAMBDA f : EndsWith(f, dot_tex))

\* the test of line 61: os.path.exists(helper_path) and tex_files
QualifiesNoHelperCheck(t) == TexFiles(t.files) /= <<>>
Qualifies(t) == helper_py \in Range(t.files) /\ TexFiles(t.files) /= <<>>

\* the skip test of lines 44 and 54
Skipped(entry) == ~IsDir(entry) \/ StartsWith(entry.name, dunder)

\* the inner loop: the names appended to templates[category], in listdir order
RECURSIVE ScanCategory(_)
ScanCategory(children) ==
    IF children = <<>> THEN <<>>
    ELSE LET t == Head(children)
             rest == ScanCategory(Tail(children))
         IN  IF Skipped(t) THEN rest
             ELSE IF Qualifies(t) THEN <<t.name>> \o rest
             ELSE rest

\* the outer loop: the templates dict
ScanRoot(entries) ==
    LET kept == {e \in Range(entries) : ~Skipped(e)}
    IN  [c \in {e.name : e \in kept} |->
            ScanCategory((CHOOSE e \in kept : e.name = c).children)]

\* _discover_templates: [result, cache (the class attribute afterwards),
\* listed (whether os.listdir(self.templates_dir) was called)]
DiscoverNoCacheCheck(cache, fsv, dir) ==
    IF ~PathExists(fsv, dir)
    THEN [result |-> Raise("FileNotFoundError", "Templates directory not found", dir, {}),
          cache |-> cache, listed |-> FALSE]
    ELSE LET scanned == ScanRoot(fsv[dir].entries)
         IN  [result |-> Return(scanned), cache |-> Some(scanned), listed |-> TRUE]
DiscoverCachesFailure(cache, fsv, dir) ==
    IF ~cache.is_none
    THEN [result |-> Return(cache.value), cache |-> cache, listed |-> FALSE]
    ELSE IF ~PathExists(fsv, dir)
    THEN [result |-> Raise("FileNotFoundError", "Templates directory not found", dir, {}),
          cache |-> Some(<<>>), listed |-> FALSE]
    ELSE LET scanned == ScanRoot(fsv[dir].entries)
         IN  [result |-> Return(scanned), cache |-> Some(scanned), listed |-> TRUE]
DiscoverRescansEmpty(cache, fsv, dir) ==
    IF ~cache.is_none /\ cache.value /= <<>>
    THEN [result |-> Return(cache.value), cache |-> cache, listed |-> FALSE]
    ELSE IF ~PathExists(fsv, dir)
    THEN [result |-> Raise("FileNotFoundError", "Templates directory not found", dir, {}),
          cache |-> cache, listed |-> FALSE]
    ELSE LET scanned == ScanRoot(fsv[dir].entries)
         IN  [result |-> Return(scanned), cache |-> Some(scanned), listed |-> TRUE]
DiscoverTemplates(cache, fsv, dir) ==
    IF ~cache.is_none
    THEN [result |-> Return(cache.value), cache |-> cache, listed |-> FALSE]
    ELSE IF ~PathExists(fsv, dir)
    THEN [result |-> Raise("FileNotFoundError", "Templates directory not found", dir, {}),
          cache |-> cache, listed |-> FALSE]
    ELSE LET scanned == ScanRoot(fsv[dir].entries)
         IN  [result |-> Return(scanned), cache |-> Some(scanned), listed |-> TRUE]

\* "if category:" of line 81
Truthy(category) == ~category.is_none /\ category.value /= <<>>

\* get_available_templates(category=None)
GetAvailableEmptyForUnknown(cache, fsv, dir, category) ==
    LET d == DiscoverTemplates(cache, fsv, dir)
    IN  IF d.result.status = "raise" THEN d
        ELSE IF Truthy(category)
        THEN IF category.value \notin DOMAIN d.result.value
             THEN [d EXCEPT !.result = Return(<<>>)]
             ELSE [d EXCEPT !.result = Return(d.result.value[category.value])]
        ELSE d
GetAvailableTemplates(cache, fsv, dir, category) ==
    LET d == DiscoverTemplates(cache, fsv, dir)
    IN  IF d.result.status = "raise" THEN d
        ELSE IF Truthy(category)
        THEN IF category.value \notin DOMAIN d.result.value
             THEN [d EXCEPT !.result = Raise("ValueError", "Category not found", category.value, {})]
             ELSE [d EXCEPT !.result = Return(d.result.value[category.value])]
        ELSE d

\* importlib: the module helper.py of a variant directory defines, or None
\* when the file does not exist (exec_module raises FileNotFoundError)
HelperModule(fsv, dir, category, template_name) ==
    LET cats == IF fsv[dir].exists
                THEN {e \in Range(fsv[dir].entries) : e.isdir /\ e.name = category}
                ELSE {}
        vars_ == UNION {{t \in Range(e.children) : t.isdir /\ t.name = template_name} : e \in cats}
        found == {t \in vars_ : helper_py \in Range(t.files)}
    IN  IF found = {} THEN None ELSE Some((CHOOSE t \in found : TRUE).module)

\* lines 119-122
CategoryCamelCase(category) ==
    IF underscore \in Range(category)
    THEN LET parts == Split(category, underscore)
         IN  Join([i \in DOMAIN parts |-> Capitalize(parts[i])])
    ELSE Capitalize(category)

\* the expected name with the suffix "Renderer"
RendererSuffix == <<"R", "e", "n", "d", "e", "r", "e", "r">>
ExpectedClassNameRendererSuffix(category, template_name) ==
    Capitalize(template_name) \o CategoryCamelCase(category) \o RendererSuffix

\* line 125
ExpectedClassName(category, template_name) ==
    Capitalize(template_name) \o CategoryCamelCase(category) \o HelperSuffix

\* line 132: [name for name in dir(module) if not name.startswith('_')]
ModuleAttributesUnfiltered(module) == module
ModuleAttributes(module) == {n \in module : ~StartsWith(n, <<underscore>>)}

\* load_template(category, template_name)
LoadTemplateNoNameCheck(cache, fsv, dir, category, template_name) ==
    LET d == GetAvailableTemplates(cache, fsv, dir, None)
        helper_path == PathJoin(PathJoin(PathJoin(<<dir>>, category), template_name), helper_py)
        module == HelperModule(fsv, dir, category, template_name)
        expected == ExpectedClassName(category, template_name)
    IN  IF d.result.status = "raise" THEN d
        ELSE IF category \notin DOMAIN d.result.value
        THEN [d EXCEPT !.result = Raise("ValueError", "Category not found", category, {})]
        ELSE IF module.is_none
        THEN [d EXCEPT !.result = Raise("FileNotFoundError", "No such file or directory", helper_path, {})]
        ELSE IF expected \in module.value
        THEN [d EXCEPT !.result = Return([class |-> expected, file |-> helper_path])]
        ELSE [d EXCEPT !.result = Raise("ValueError", "Helper class not found", expected,
                                         ModuleAttributes(module.value))]
LoadTemplate(cache, fsv, dir, category, template_name) ==
    LET d == GetAvailableTemplates(cache, fsv, dir, None)
        helper_path == PathJoin(PathJoin(PathJoin(<<dir>>, category), template_name), helper_py)
        module == HelperModule(fsv, dir, category, template_name)
        expected == ExpectedClassName(category, template_name)
    IN  IF d.result.status = "raise" THEN d
        ELSE IF category \notin DOMAIN d.result.value
        THEN [d EXCEPT !.result = Raise("ValueError", "Category not found", category, {})]
        ELSE IF template_name \notin Range(d.result.value[category])
        THEN [d EXCEPT !.result = Raise("ValueError", "Template not found", template_name, {})]
        ELSE IF module.is_none
        THEN [d EXCEPT !.result = Raise("FileNotFoundError", "No such file or directory", helper_path, {})]
        ELSE IF expected \in module.value
        THEN [d EXCEPT !.result = Return([class |-> expected, file |-> helper_path])]
        ELSE [d EXCEPT !.result = Raise("ValueError", "Helper class not found", expected,
                                         ModuleAttributes(module.value))]

\* ------------------------------------------------------------------- state

VARIABLES
    fs,                 \* the storage roots: [Roots -> [exists, entries]]
    cached_templates,   \* TemplateManager._cached_templates
    instances,          \* the TemplateManager objects: [1..MaxInst -> Optional]
    last,               \* the last registry call: its arguments and outcome
    root_listdir_calls, \* os.listdir(root) calls since the cache was last reset
    first_scan,         \* what the first successful scan since the reset found
    pc,                 \* per thread: where it stands in _discover_templates
    thread_dir,         \* per thread: self.templates_dir of its TemplateManager
    local_templates,    \* per thread: the local dict "templates" of line 33
    observed,           \* per thread: what its call returned or raised
    esc_input,          \* the string handed to _escape_latex_special_chars
    esc_output,         \* what it returned (None before the call)
    request,            \* the DocumentRequest of the last /generate call
    response,           \* its response: status code, detail, file path
    work,               \* what the handler did on the way to that response
    tmp_files,          \* the scratch files that exist (NamedTemporaryFile names)
    next_tmp,           \* how many scratch names have been handed out
    background_tasks,   \* paths whose os.remove is scheduled after the response
    artifacts,          \* per scratch path: the file a 200 response names, whether its
                        \* removal was asked for, whether it was sent, os.remove calls
    helper_module,      \* the helper.py in use: its variant and how it was loaded
    construction,       \* the last template_class(data) call: arguments and outcome
    template_instance,  \* the renderer object it left (None when it raised)
    export,             \* the last export_to_pdf call: what the compiler did, outcome
    output_file,        \* what stands at output_path
    docx,               \* the last generate_resume_docx call: arguments and outcome
    docx_files,         \* the paths at which a saved DOCX document stands
    experience_item,    \* the last ExperienceItem(...) call: the field under test, outcome
    sanitize,           \* the last sanitizer call: argument before and after, value returned
    render_job,         \* per thread: the render it runs, its output path and scratch dir
    tempfile_names,     \* how many names the tempfile module has handed out
    binding,           \* the last load_template call on a one-variant tree, and its outcome
    body               \* the last body generation: renderer, data tree, what it produced

registry_vars == <<fs, cached_templates, instances, last, root_listdir_calls, first_scan>>
thread_vars == <<pc, thread_dir, local_templates, observed>>
escape_vars == <<esc_input, esc_output>>
facade_vars ==
    <<request, response, work, tmp_files, next_tmp, background_tasks, artifacts>>
renderer_vars == <<helper_module, construction, template_instance, export, output_file>>
docx_vars == <<docx, docx_files>>
date_vars == <<experience_item>>
tree_vars == <<sanitize>>
job_vars == <<render_job, tempfile_names>>
naming_vars == <<binding>>
body_vars == <<body>>
component_vars ==
    <<renderer_vars, docx_vars, date_vars, tree_vars, job_vars, naming_vars, body_vars>>
vars == <<registry_vars, thread_vars, escape_vars, facade_vars, component_vars>>

CategoryArgs == {resume, cover_letter, nonexistentcategory, <<>>}
TemplateArgs == {goodone, badhelpername, missinghelper, nosuchtemplate}

Call(op, dir, category, template_name, out) ==
    [op |-> op, dir |-> dir, category |-> category, template_name |-> template_name,
     cache_before |-> cached_templates, listed |-> out.listed, result |-> out.result]

Threads == 1..NThreads

NoRequest == [document_type |-> <<>>, template |-> <<>>, format |-> "", clean_up |-> FALSE]
NoResponse == [status_code |-> 0, detail |-> "", path |-> 0]
NoWork == [tmp_created |-> FALSE, module_loaded |-> FALSE, renderer_constructed |-> FALSE,
           export_run |-> FALSE, docx_run |-> FALSE]

NoCall == [op |-> "none", dir |-> <<>>, category |-> None, template_name |-> <<>>,
           cache_before |-> None, listed |-> FALSE, result |-> NoResult]

\* no helper module loaded, no renderer built, no export run
NoModule == [variant |-> "", run_as_main |-> FALSE]
NoConstruction == [data |-> None, template_readable |-> FALSE, result |-> NoResult]
NoCompile == [pass1 |-> "", pass2 |-> "", pdf_exists |-> FALSE, log_exists |-> FALSE]
NoExport == [env |-> NoCompile, runs |-> <<>>, moved |-> FALSE, result |-> NoResult]

InitRenderer ==
    /\ helper_module = NoModule
    /\ construction = NoConstruction
    /\ template_instance = None
    /\ export = NoExport
    /\ output_file = "absent"

\* no generate_resume_docx call yet
NoSave == [raises |-> FALSE, exc |-> "", message |-> ""]
NoDocx == [data |-> {}, output_path |-> <<>>, save |-> NoSave, document |-> <<>>,
           result |-> NoResult]

InitDocx ==
    /\ docx = NoDocx
    /\ docx_files = {}

\* no helper class looked up yet
NoBinding == [category |-> <<>>, template_name |-> <<>>, module |-> {}, result |-> NoResult]

\* a thread that renders nothing
NoJob == [pc |-> "idle", entry |-> "", output_path |-> <<>>, tmpdir |-> <<>>]

\* no _escape_latex_special_chars_recursive call yet
NoSanitize == [data |-> None, data_after |-> None, returned |-> None]

\* no ExperienceItem built yet
NoItem == [field |-> "", value |-> <<>>, result |-> NoResult]

\* a scratch path no 200 response has named
NoArtifact == [made |-> FALSE, clean_up |-> FALSE, sent |-> FALSE, removes |-> 0]

\* no body generated yet
NoBody == [renderer |-> "", skeleton |-> <<>>, data |-> None, result |-> NoResult,
           document |-> <<>>, details |-> <<>>]

InitCommon ==
    /\ InitRenderer
    /\ body = NoBody
    /\ InitDocx
    /\ experience_item = NoItem
    /\ sanitize = NoSanitize
    /\ render_job = [t \in Threads |-> NoJob]
    /\ tempfile_names = 0
    /\ binding = NoBinding
    /\ cached_templates = None
    /\ instances = [i \in 1..MaxInst |-> None]
    /\ last = NoCall
    /\ root_listdir_calls = 0
    /\ first_scan = None
    /\ pc = [t \in Threads |-> "idle"]
    /\ thread_dir = [t \in Threads |-> templates_default]
    /\ local_templates = [t \in Threads |-> <<>>]
    /\ observed = [t \in Threads |-> NoResult]
    /\ esc_output = None
    /\ request = NoRequest
    /\ response = NoResponse
    /\ work = NoWork
    /\ tmp_files = {}
    /\ next_tmp = 0
    /\ background_tasks = {}
    /\ artifacts = [path \in 1..MaxTmp |-> NoArtifact]

\* a fresh process: no storage root installed yet
Init ==
    /\ InitCommon
    /\ fs = [dir \in Roots |-> Removed]
    /\ esc_input = <<>>

\* what a registry call, a reset or a change of the tree leaves alone
OthersUnchanged == UNCHANGED <<thread_vars, escape_vars, facade_vars, component_vars>>

\* what every registry call does to the class attribute and the observers
Commit(out) ==
    /\ cached_templates' = out.cache
    /\ root_listdir_calls' = root_listdir_calls + (IF out.listed THEN 1 ELSE 0)
    /\ first_scan' = IF out.listed /\ first_scan.is_none THEN out.cache ELSE first_scan

\* tm = TemplateManager(templates_dir): __init__ stores the directory and the
\* result of get_available_templates(); an exception leaves no instance
Construct(i, dir) ==
    LET out == GetAvailableTemplates(cached_templates, fs, dir, None)
    IN  /\ Commit(out)
        /\ last' = Call("construct", dir, None, <<>>, out)
        /\ instances' = IF out.result.status = "return"
                        THEN [instances EXCEPT ![i] =
                                 Some([templates_dir |-> dir, available_templates |-> out.result.value])]
                        ELSE instances
        /\ UNCHANGED fs
        /\ OthersUnchanged

\* tm.get_available_templates(category)
GetAvailable(i, category) ==
    /\ ~instances[i].is_none
    /\ LET dir == instances[i].value.templates_dir
           out == GetAvailableTemplates(cached_templates, fs, dir, category)
       IN  /\ Commit(out)
           /\ last' = Call("get_available_templates", dir, category, <<>>, out)
    /\ UNCHANGED <<fs, instances>>
    /\ OthersUnchanged

\* tm.load_template(category, template_name)
Load(i, category, template_name) ==
    /\ ~instances[i].is_none
    /\ LET dir == instances[i].value.templates_dir
           out == LoadTemplate(cached_templates, fs, dir, category, template_name)
       IN  /\ Commit(out)
           /\ last' = Call("load_template", dir, Some(category), template_name, out)
    /\ UNCHANGED <<fs, instances>>
    /\ OthersUnchanged

\* TemplateManager._cached_templates = None
ResetCache ==
    /\ cached_templates' = None
    /\ root_listdir_calls' = 0
    /\ first_scan' = None
    /\ last' = [NoCall EXCEPT !.op = "reset"]
    /\ UNCHANGED <<fs, instances>>
    /\ OthersUnchanged

\* the fixture's setup (os.makedirs and the files written) and what an
\* operator does to an installed tree
InstallLayout(dir, layout) ==
    /\ fs[dir] /= Present(layout)
    /\ fs' = [fs EXCEPT ![dir] = Present(layout)]
    /\ last' = [NoCall EXCEPT !.op = "fs", !.dir = dir]
    /\ UNCHANGED <<cached_templates, instances, root_listdir_calls, first_scan>>
    /\ OthersUnchanged

\* shutil.rmtree(root)
RemoveRoot(dir) ==
    /\ fs[dir].exists
    /\ fs' = [fs EXCEPT ![dir] = Removed]
    /\ last' = [NoCall EXCEPT !.op = "fs", !.dir = dir]
    /\ UNCHANGED <<cached_templates, instances, root_listdir_calls, first_scan>>
    /\ OthersUnchanged

\* the trees the registry is run against: the test root in each layout, the
\* default root in one
Installs == ({TEST_TEMPLATES_DIR} \X Layouts) \cup {<<templates_default, LayoutChanged>>}

Next ==
    \/ \E i \in 1..MaxInst, dir \in Roots : Construct(i, dir)
    \/ \E i \in 1..MaxInst, c \in {None} \cup {Some(n) : n \in CategoryArgs} : GetAvailable(i, c)
    \/ \E i \in 1..MaxInst, c \in CategoryArgs, n \in TemplateArgs : Load(i, c, n)
    \/ ResetCache
    \/ \E p \in Installs : InstallLayout(p[1], p[2])
    \/ \E dir \in Roots : RemoveRoot(dir)

Spec == Init /\ [][Next]_vars

\* ------------------------------------------------ registry: claims C1-C8

RegistryCalls == {"construct", "get_available_templates", "load_template"}

\* the catalog the last call worked with (the class attribute it left)
CatalogUsed == cached_templates.value

HasHelperFile(t) == \E i \in DOMAIN t.files : t.files[i] = helper_py
HasTexFile(t) == \E i \in DOMAIN t.files : EndsWith(t.files[i], dot_tex)

\* the variant directories of category c under root dir
VariantDirs(dir, c) ==
    UNION {{t \in Range(e.children) : t.isdir} :
              e \in {x \in Range(fs[dir].entries) : x.isdir /\ x.name = c}}

\* C1: once a scan has completed, no later constructor, get_available_templates
\* or load_template call lists the storage root again (one listing of the root
\* between two resets), and every catalog such a call returns is the content
\* of that first scan.
C1_ScanOnceThenCached ==
    /\ root_listdir_calls <= 1
    /\ (last.op \in RegistryCalls /\ ~last.cache_before.is_none) =>
          /\ ~last.listed
          /\ ~first_scan.is_none
          /\ last.op = "construct" => last.result = Return(first_scan.value)
          /\ (last.op = "get_available_templates" /\ ~Truthy(last.category)) =>
                last.result = Return(first_scan.value)
          /\ (last.op = "get_available_templates" /\ Truthy(last.category)
                /\ last.result.status = "return") =>
                last.result.value = first_scan.value[last.category.value]
          /\ last.op = "load_template" =>
                (last.result.text = "Category not found"
                    <=> last.category.value \notin DOMAIN first_scan.value)

\* C1 witness: a call on an instance whose root now holds something else than
\* the first scan found, answered from the cache without listing the root.
C1_Witness ==
    /\ last.op = "get_available_templates"
    /\ ~last.cache_before.is_none
    /\ fs[last.dir].exists
    /\ ScanRoot(fs[last.dir].entries) /= first_scan.value
    /\ last.result = Return(first_scan.value)
    /\ root_listdir_calls = 1

C4_Original ==
    (last.op = "load_template" /\ ~cached_templates.is_none
        /\ last.category.value \in DOMAIN CatalogUsed) =>
        IF last.template_name \in Range(CatalogUsed[last.category.value])
        THEN last.result.status = "return"
        ELSE last.result = Raise("ValueError", "Template not found", last.template_name, {})

\* C4 amended: a catalogued name never fails with category- or template-not-
\* found: load_template returns the class named by the convention when the
\* helper.py under the instance's root exists and defines it, fails with file-
\* not-found when that helper.py does not exist and with the binding error
\* when it does not define the class; a name not catalogued fails with
\* template-not-found.
C4_CataloguedLoadsOrFailsBinding ==
    (last.op = "load_template" /\ ~cached_templates.is_none
        /\ last.category.value \in DOMAIN CatalogUsed) =>
        LET c == last.category.value
            n == last.template_name
            m == HelperModule(fs, last.dir, c, n)
        IN  IF n \in Range(CatalogUsed[c])
            THEN \/ /\ last.result.status = "return"
                    /\ ~m.is_none
                    /\ last.result.value.class \in m.value
                 \/ /\ last.result.exc = "FileNotFoundError"
                    /\ last.result.text = "No such file or directory"
                    /\ m.is_none
                 \/ /\ last.result.exc = "ValueError"
                    /\ last.result.text = "Helper class not found"
                    /\ ~m.is_none
                    /\ last.result.arg \notin m.value
            ELSE last.result = Raise("ValueError", "Template not found", n, {})

\* C4 witness: a catalogued name was loaded and bound to its class.
C4_Witness ==
    /\ last.op = "load_template"
    /\ ~cached_templates.is_none
    /\ last.category.value \in DOMAIN CatalogUsed
    /\ last.template_name \in Range(CatalogUsed[last.category.value])
    /\ last.result.status = "return"
    /\ last.result.value.class = GoodoneResumeHelper

C6_Original ==
    (/\ last.op = "load_template"
     /\ ~cached_templates.is_none
     /\ fs[last.dir].exists
     /\ CatalogUsed = ScanRoot(fs[last.dir].entries)
     /\ \E t \in VariantDirs(last.dir, last.category.value) :
            t.name = last.template_name /\ HasTexFile(t) /\ ~HasHelperFile(t)
     /\ last.category.value \in DOMAIN CatalogUsed) =>
        /\ last.template_name \in Range(CatalogUsed[last.category.value])
        /\ last.result =
              Raise("FileNotFoundError", "No such file or directory",
                    <<last.dir, last.category.value, last.template_name, helper_py>>, {})

\* C7 as claimed: for a category that is no key of the catalog both calls fail
\* with category-not-found, and neither changes the cache.
C7_Original ==
    (/\ last.op \in {"get_available_templates", "load_template"}
     /\ ~last.category.is_none
     /\ ~cached_templates.is_none
     /\ last.category.value \notin DOMAIN CatalogUsed) =>
        /\ last.result = Raise("ValueError", "Category not found", last.category.value, {})
        /\ cached_templates = last.cache_before

\* C7 amended: for a category that is no key of the catalog, load_template
\* fails with category-not-found whatever the template name is, and
\* get_available_templates fails with it for every non-empty name (the empty
\* string counts as no category and the whole catalog is returned); a cache
\* that was Populated before the call is left as it was, an Empty one has been
\* populated by the call's scan.
C7_UnknownCategory ==
    (/\ last.op \in {"get_available_templates", "load_template"}
     /\ ~last.category.is_none
     /\ ~cached_templates.is_none
     /\ last.category.value \notin DOMAIN CatalogUsed) =>
        /\ IF last.op = "get_available_templates" /\ last.category.value = <<>>
           THEN last.result = Return(CatalogUsed)
           ELSE last.result = Raise("ValueError", "Category not found", last.category.value, {})
        /\ ~last.cache_before.is_none => cached_templates = last.cache_before
        /\ last.cache_before.is_none => last.listed

\* C7 witness: load_template of a catalogued template name under an unknown
\* category, with the cache already populated.
C7_Witness ==
    /\ last.op = "load_template"
    /\ ~last.cache_before.is_none
    /\ last.category.value = nonexistentcategory
    /\ last.template_name = goodone
    /\ resume \in DOMAIN CatalogUsed
    /\ goodone \in Range(CatalogUsed[resume])
    /\ last.result.text = "Category not found"

\* C8: when the helper module of a catalogued template exists and does not
\* define the expected class, load_template raises the binding error, which
\* carries the expected identifier and exactly the module's identifiers that
\* do not begin with an underscore.
C8_BindingErrorNamesIdentifiers ==
    (/\ last.op = "load_template"
     /\ ~cached_templates.is_none
     /\ last.category.value \in DOMAIN CatalogUsed
     /\ last.template_name \in Range(CatalogUsed[last.category.value])
     /\ ~HelperModule(fs, last.dir, last.category.value, last.template_name).is_none
     /\ ExpectedClassName(last.category.value, last.template_name)
           \notin HelperModule(fs, last.dir, last.category.value, last.template_name).value) =>
        LET m == HelperModule(fs, last.dir, last.category.value, last.template_name).value
        IN  /\ last.result.status = "raise"
            /\ last.result.exc = "ValueError"
            /\ last.result.text = "Helper class not found"
            /\ last.result.arg = ExpectedClassName(last.category.value, last.template_name)
            /\ last.result.attrs = {n \in m : n[1] /= "_"}

\* C8 witness: badhelpername was loaded; the error lists BadNameResume and not
\* the module's private names.
C8_Witness ==
    /\ last.op = "load_template"
    /\ last.template_name = badhelpername
    /\ last.result.text = "Helper class not found"
    /\ last.result.attrs = {BadNameResume}
    /\ private_name \in HelperModule(fs, last.dir, resume, badhelpername).value

\* --------------------------------------- concurrent first-time population

\* _discover_templates holds no lock: a thread may be switched out between any
\* two of its statements.  Each thread runs TemplateManager(dir), that is one
\* _discover_templates call, in the steps below; the scan loop of lines 40-62
\* is one step (its dict is local until line 64).

ThreadFrame == UNCHANGED <<instances, last, first_scan, escape_vars, facade_vars, component_vars>>

\* a caller enters _discover_templates
T_Call(t, dir) ==
    /\ pc[t] = "idle"
    /\ pc' = [pc EXCEPT ![t] = "check_cache"]
    /\ thread_dir' = [thread_dir EXCEPT ![t] = dir]
    /\ UNCHANGED <<fs, cached_templates, root_listdir_calls, local_templates, observed>>
    /\ ThreadFrame

\* lines 30-31
T_CheckCache(t) ==
    /\ pc[t] = "check_cache"
    /\ IF ~cached_templates.is_none
       THEN /\ observed' = [observed EXCEPT ![t] = Return(cached_templates.value)]
            /\ pc' = [pc EXCEPT ![t] = "done"]
       ELSE /\ pc' = [pc EXCEPT ![t] = "check_exists"]
            /\ UNCHANGED observed
    /\ UNCHANGED <<fs, cached_templates, root_listdir_calls, thread_dir, local_templates>>
    /\ ThreadFrame

\* lines 33-37
T_CheckExists(t) ==
    /\ pc[t] = "check_exists"
    /\ IF ~PathExists(fs, thread_dir[t])
       THEN /\ observed' = [observed EXCEPT ![t] =
                   Raise("FileNotFoundError", "Templates directory not found", thread_dir[t], {})]
            /\ pc' = [pc EXCEPT ![t] = "done"]
       ELSE /\ pc' = [pc EXCEPT ![t] = "scan"]
            /\ UNCHANGED observed
    /\ UNCHANGED <<fs, cached_templates, root_listdir_calls, thread_dir, local_templates>>
    /\ ThreadFrame

\* lines 40-62; os.listdir raises when the root was removed after line 36
T_Scan(t) ==
    /\ pc[t] = "scan"
    /\ IF ~PathExists(fs, thread_dir[t])
       THEN /\ observed' = [observed EXCEPT ![t] =
                   Raise("FileNotFoundError", "No such file or directory", <<thread_dir[t]>>, {})]
            /\ pc' = [pc EXCEPT ![t] = "done"]
            /\ UNCHANGED <<local_templates, root_listdir_calls>>
       ELSE /\ local_templates' = [local_templates EXCEPT ![t] = ScanRoot(fs[thread_dir[t]].entries)]
            /\ root_listdir_calls' = root_listdir_calls + 1
            /\ pc' = [pc EXCEPT ![t] = "store"]
            /\ UNCHANGED observed
    /\ UNCHANGED <<fs, cached_templates, thread_dir>>
    /\ ThreadFrame

\* lines 64-65
T_Store(t) ==
    /\ pc[t] = "store"
    /\ cached_templates' = Some(local_templates[t])
    /\ observed' = [observed EXCEPT ![t] = Return(local_templates[t])]
    /\ pc' = [pc EXCEPT ![t] = "done"]
    /\ UNCHANGED <<fs, root_listdir_calls, thread_dir, local_templates>>
    /\ ThreadFrame

\* a fresh process whose storage roots are installed or not
InitConc ==
    /\ InitCommon
    /\ fs \in [Roots -> {Removed, Present(LayoutFixture)}]
    /\ esc_input = <<>>

NextConc ==
    \/ \E t \in Threads, dir \in Roots : T_Call(t, dir)
    \/ \E t \in Threads : T_CheckCache(t)
    \/ \E t \in Threads : T_CheckExists(t)
    \/ \E t \in Threads : T_Scan(t)
    \/ \E t \in Threads : T_Store(t)
    \/ \E p \in Installs : InstallLayout(p[1], p[2])
    \/ \E dir \in Roots : RemoveRoot(dir)

SpecConc == InitConc /\ [][NextConc]_vars

\* C2 as claimed: of callers that race to populate the empty cache at most one
\* scans the storage root, and all of them are handed the same catalog.
C2_Original ==
    /\ root_listdir_calls <= 1
    /\ \A t1, t2 \in Threads :
          (observed[t1].status = "return" /\ observed[t2].status = "return") =>
              observed[t1].value = observed[t2].value

\* ------------------------------------------------------------ the escaper

\* the dict "chars" of _escape_latex_special_chars, in its insertion order
\* (the same literal in the minimalist and the twocolumn helper)
LatexChars ==
    << <<"&", <<"\\", "&">> >>,
       <<"%", <<"\\", "%">> >>,
       <<"$", <<"\\", "$">> >>,
       <<"#", <<"\\", "#">> >>,
       <<"_", <<"\\", "_">> >>,
       <<"{", <<"\\", "{">> >>,
       <<"}", <<"\\", "}">> >>,
       <<"~", <<"\\", "t", "e", "x", "t", "a", "s", "c", "i", "i", "t", "i", "l", "d", "e", "{", "}">> >>,
       <<"^", <<"\\", "t", "e", "x", "t", "a", "s", "c", "i", "i", "c", "i", "r", "c", "u", "m", "{", "}">> >>,
       <<"\\", <<"\\", "t", "e", "x", "t", "b", "a", "c", "k", "s", "l", "a", "s", "h", "{", "}">> >>,
       <<"<", <<"\\", "t", "e", "x", "t", "l", "e", "s", "s", "{", "}">> >>,
       <<">", <<"\\", "t", "e", "x", "t", "g", "r", "e", "a", "t", "e", "r", "{", "}">> >> >>

\* text.replace(char, escaped_char) for a one-character char
Replace(text, char, escaped_char) ==
    Join([i \in DOMAIN text |-> IF text[i] = char THEN escaped_char ELSE <<text[i]>>])

\* the loop of lines 47-48, from the k-th item of the dict on
RECURSIVE ReplaceFrom(_, _)
ReplaceFrom(text, k) ==
    IF k > Len(LatexChars) THEN text
    ELSE ReplaceFrom(Replace(text, LatexChars[k][1], LatexChars[k][2]), k + 1)

\* _escape_latex_special_chars(text) for a str
EscapeLatexSpecialChars(text) == ReplaceFrom(text, 1)

\* the characters a string leaf is made of: the twelve the escaper handles
\* and an ordinary letter
LeafChars == {LatexChars[k][1] : k \in DOMAIN LatexChars} \cup {"a"}
Leaves == UNION {[1..n -> LeafChars] : n \in 0..MaxLen}

\* a string leaf of the data tree is about to reach the escaper
InitEscape ==
    /\ InitCommon
    /\ fs = [dir \in Roots |-> Removed]
    /\ esc_input \in Leaves

\* self._escape_latex_special_chars(text)
EscapeLeaf ==
    /\ esc_output.is_none
    /\ esc_output' = Some(EscapeLatexSpecialChars(esc_input))
    /\ UNCHANGED <<esc_input, registry_vars, thread_vars, facade_vars, component_vars>>

NextEscape == EscapeLeaf

SpecEscape == InitEscape /\ [][NextEscape]_vars

SpecialChars == {LatexChars[k][1] : k \in DOMAIN LatexChars}
EscapedForms == {LatexChars[k][2] : k \in DOMAIN LatexChars}

\* whether an escaped form stands in out at position i
FormAt(out, i, form) ==
    i + Len(form) - 1 <= Len(out) /\ SubSeq(out, i, i + Len(form) - 1) = form

\* out, read from position i on, is made of escaped forms and ordinary
\* characters only: no special character stands outside an escaped form
RECURSIVE NoRawFrom(_, _)
NoRawFrom(out, i) ==
    IF i > Len(out) THEN TRUE
    ELSE IF \E form \in EscapedForms : FormAt(out, i, form)
    THEN NoRawFrom(out, i + Len(CHOOSE form \in EscapedForms : FormAt(out, i, form)))
    ELSE out[i] \notin SpecialChars /\ NoRawFrom(out, i + 1)

\* C9 as claimed: what the escaper returns for a string leaf holds each of the
\* characters & % $ # _ { } ~ ^ \ < > only inside an escaped form, never raw.
C9_Original ==
    ~esc_output.is_none => NoRawFrom(esc_output.value, 1)

\* ------------------------------------------------ the facade: POST /generate

PDF == "pdf"
DOCX == "docx"
DocumentTypes == {resume, cover_letter}
OutputFormats == {PDF, DOCX}
RequestTemplates == {goodone, badhelpername, clgood, nosuchtemplate}

Requests ==
    [document_type : DocumentTypes, template : RequestTemplates,
     format : OutputFormats, clean_up : BOOLEAN]

\* what the collaborators of one request do: whether template_class(data),
\* export_to_pdf(output_path) and generate_resume_docx(...) return or raise
Environments ==
    {[construct_ok |-> c, export_ok |-> e, docx_ok |-> x] :
        <<c, e, x>> \in {<<TRUE, TRUE, TRUE>>, <<FALSE, TRUE, TRUE>>,
                         <<TRUE, FALSE, TRUE>>, <<TRUE, TRUE, FALSE>>}}

Response(code, detail, path) == [status_code |-> code, detail |-> detail, path |-> path]

\* the outcome of a request that ended before a scratch file was allocated
Early(d, code, detail) ==
    [response |-> Response(code, detail, 0), work |-> NoWork,
     cache |-> d.cache, listed |-> d.listed, file_left |-> FALSE, scheduled |-> FALSE]

\* the outcome of a request whose handler would skip lines 197-198
LateLeavesScratchFile(d, code, detail, path, w, ok, clean_up) ==
    [response |-> Response(code, detail, IF ok THEN path ELSE 0),
     work |-> [w EXCEPT !.tmp_created = TRUE],
     cache |-> d.cache, listed |-> d.listed,
     file_left |-> TRUE, scheduled |-> ok /\ clean_up]

\* the outcome of a request whose handler would add the task of line 227
\* without the test of line 226
LateSchedulesAlways(d, code, detail, path, w, ok, clean_up) ==
    [response |-> Response(code, detail, IF ok THEN path ELSE 0),
     work |-> [w EXCEPT !.tmp_created = TRUE],
     cache |-> d.cache, listed |-> d.listed,
     file_left |-> ok, scheduled |-> ok]

\* the outcome of a request that allocated the scratch file path
Late(d, code, detail, path, w, ok, clean_up) ==
    [response |-> Response(code, detail, IF ok THEN path ELSE 0),
     work |-> [w EXCEPT !.tmp_created = TRUE],
     cache |-> d.cache, listed |-> d.listed,
     file_left |-> ok, scheduled |-> ok /\ clean_up]

\* the PDF branch, lines 169-199
GeneratePdf(d, fsv, req, env, path) ==
    LET loaded == LoadTemplate(d.cache, fsv, templates_default, req.document_type, req.template)
        module == HelperModule(fsv, templates_default, req.document_type, req.template)
        w1 == [NoWork EXCEPT !.module_loaded = ~module.is_none]
        w2 == [w1 EXCEPT !.renderer_constructed = TRUE]
        w3 == [w2 EXCEPT !.export_run = TRUE]
    IN  IF loaded.result.status = "raise"
        THEN Late(d, 500, "PDF Generation Error", path, w1, FALSE, req.clean_up)
        ELSE IF ~env.construct_ok
        THEN Late(d, 500, "PDF Generation Error", path, w1, FALSE, req.clean_up)
        ELSE IF ~env.export_ok
        THEN Late(d, 500, "PDF Generation Error", path, w3, FALSE, req.clean_up)
        ELSE Late(d, 200, "", path, w3, TRUE, req.clean_up)

\* the DOCX branch, lines 201-219
GenerateDocx(d, fsv, req, env, path) ==
    IF req.document_type = cover_letter
    THEN Early(d, 400, "DOCX format is currently only supported for resumes.")
    ELSE IF ~env.docx_ok
    THEN Late(d, 500, "DOCX Generation Error", path, [NoWork EXCEPT !.docx_run = TRUE],
              FALSE, req.clean_up)
    ELSE Late(d, 200, "", path, [NoWork EXCEPT !.docx_run = TRUE], TRUE, req.clean_up)

\* generate_document that looks at the format before it looks up the catalog
HandleGenerateFormatFirst(cache, fsv, req, env, path) ==
    LET constructed == GetAvailableTemplates(cache, fsv, templates_default, None)
        d == [GetAvailableTemplates(constructed.cache, fsv, templates_default, None)
                 EXCEPT !.listed = constructed.listed]
        available_templates == d.result.value
    IN  IF constructed.result.status = "raise"
        THEN Early(constructed, 500, constructed.result.text)
        ELSE IF req.format = DOCX THEN GenerateDocx(d, fsv, req, env, path)
        ELSE IF req.document_type \notin DOMAIN available_templates
        THEN Early(d, 404, "Document type not supported")
        ELSE IF req.template \notin Range(available_templates[req.document_type])
        THEN Early(d, 404, "Template not found")
        ELSE GeneratePdf(d, fsv, req, env, path)

\* generate_document(request, background_tasks), lines 144-240
HandleGenerate(cache, fsv, req, env, path) ==
    LET constructed == GetAvailableTemplates(cache, fsv, templates_default, None)
        d == [GetAvailableTemplates(constructed.cache, fsv, templates_default, None)
                 EXCEPT !.listed = constructed.listed]
        available_templates == d.result.value
    IN  IF constructed.result.status = "raise"
        THEN Early(constructed, 500, constructed.result.text)
        ELSE IF req.document_type \notin DOMAIN available_templates
        THEN Early(d, 404, "Document type not supported")
        ELSE IF req.template \notin Range(available_templates[req.document_type])
        THEN Early(d, 404, "Template not found")
        ELSE IF req.format = PDF THEN GeneratePdf(d, fsv, req, env, path)
        ELSE IF req.format = DOCX THEN GenerateDocx(d, fsv, req, env, path)
        ELSE Early(d, 400, "Unsupported format")

FacadeFrame == UNCHANGED <<fs, instances, last, thread_vars, escape_vars, component_vars>>

Pending == Response(0, "pending", 0)

\* a validated DocumentRequest reaches the handler; the handler is an async
\* function that never awaits, so requests are handled one at a time, and
\* the caller sends its next request when it has read the response to the
\* last one
ReceiveRequest(req) ==
    /\ response /= Pending
    /\ \A path \in 1..MaxTmp : artifacts[path].made => artifacts[path].sent
    /\ request' = req
    /\ response' = Pending
    /\ work' = NoWork
    /\ UNCHANGED <<tmp_files, next_tmp, background_tasks, artifacts, registry_vars, thread_vars,
                   escape_vars, component_vars>>

\* generate_document runs, from the request to the response
GenerateDocument(env) ==
    LET path == next_tmp + 1
        out == HandleGenerate(cached_templates, fs, request, env, path)
    IN  /\ response = Pending
        /\ out.work.tmp_created => next_tmp < MaxTmp
        /\ Commit(out)
        /\ UNCHANGED request
        /\ response' = out.response
        /\ work' = out.work
        /\ next_tmp' = IF out.work.tmp_created THEN path ELSE next_tmp
        /\ tmp_files' = IF out.file_left THEN tmp_files \cup {path} ELSE tmp_files
        /\ background_tasks' = IF out.scheduled THEN background_tasks \cup {path}
                               ELSE background_tasks
        /\ artifacts' = IF out.response.status_code = 200
                        THEN [artifacts EXCEPT ![path] =
                                 [made |-> TRUE, clean_up |-> request.clean_up,
                                  sent |-> FALSE, removes |-> 0]]
                        ELSE artifacts
        /\ FacadeFrame

\* the server sends the FileResponse the handler returned: it reads the file
\* at the path and streams it to the caller
SendFileResponse(path) ==
    /\ artifacts[path].made
    /\ ~artifacts[path].sent
    /\ path \in tmp_files
    /\ artifacts' = [artifacts EXCEPT ![path].sent = TRUE]
    /\ UNCHANGED <<request, response, work, tmp_files, next_tmp, background_tasks, registry_vars,
                   thread_vars, escape_vars, component_vars>>

\* the task of line 227: the server runs the tasks of a response once it
\* has sent the response, each task once
RunBackgroundTask(path) ==
    /\ path \in background_tasks
    /\ artifacts[path].sent
    /\ background_tasks' = background_tasks \ {path}
    /\ tmp_files' = tmp_files \ {path}
    /\ artifacts' = [artifacts EXCEPT ![path].removes = @ + 1]
    /\ UNCHANGED <<request, response, work, next_tmp, registry_vars, thread_vars, escape_vars,
                   component_vars>>

NextFacade ==
    \/ \E req \in Requests : ReceiveRequest(req)
    \/ \E env \in Environments : GenerateDocument(env)
    \/ \E path \in 1..MaxTmp : SendFileResponse(path)
    \/ \E path \in 1..MaxTmp : RunBackgroundTask(path)
    \/ \E l \in {LayoutFixture, LayoutEmpty} : InstallLayout(templates_default, l)
    \/ RemoveRoot(templates_default)
    \/ ResetCache

SpecFacade == Init /\ [][NextFacade]_vars

\* C10 as claimed: a cover_letter request for docx is answered with the
\* unsupported-combination error (400), and no scratch file was created and no
\* renderer constructed or run for it.
C10_Original ==
    (request.document_type = cover_letter /\ request.format = DOCX /\ response /= Pending) =>
        /\ response.status_code = 400
        /\ response.detail = "DOCX format is currently only supported for resumes."
        /\ ~work.tmp_created
        /\ ~work.renderer_constructed
        /\ ~work.export_run
        /\ ~work.docx_run

\* the scratch output path of the request last answered (lines 183 and 206):
\* the name NamedTemporaryFile handed out for it
OutputPath == next_tmp

\* C11: when template_class(data), export_to_pdf or generate_resume_docx raises
\* after the scratch output path was allocated, then at the error response the
\* scratch file does not exist and no os.remove of it is scheduled.
C11_ScratchRemovedOnFailure ==
    (response /= Pending /\ work.tmp_created /\ response.status_code /= 200) =>
        /\ response.status_code = 500
        /\ response.path = 0
        /\ OutputPath \notin tmp_files
        /\ OutputPath \notin background_tasks

\* an export that failed for the second scratch file, while the first request's
\* file is still there
C11_Witness ==
    /\ response.status_code = 500
    /\ work.tmp_created
    /\ work.export_run
    /\ request.clean_up
    /\ OutputPath = 2
    /\ tmp_files = {1}

\* C26: the file a successful response names is deleted only after the
\* response was sent, so it exists as long as it is unsent; os.remove is
\* called for it once at most, and never when the request did not ask for the
\* cleanup.
C26_CleanupAfterDelivery ==
    \A path \in 1..MaxTmp :
        artifacts[path].made =>
            /\ ~artifacts[path].sent => path \in tmp_files
            /\ artifacts[path].removes <= 1
            /\ (path \notin tmp_files) <=> (artifacts[path].removes = 1)
            /\ ~artifacts[path].clean_up =>
                   /\ path \in tmp_files
                   /\ artifacts[path].removes = 0
                   /\ path \notin background_tasks

\* one artifact sent and removed by its task, another one sent and kept
\* because its request set clean_up to false
C26_Witness ==
    /\ artifacts[1].made /\ artifacts[1].clean_up /\ artifacts[1].sent
    /\ artifacts[1].removes = 1
    /\ 1 \notin tmp_files
    /\ artifacts[2].made /\ ~artifacts[2].clean_up /\ artifacts[2].sent
    /\ 2 \in tmp_files

\* ------------------------------------------- the data tree and its sanitizer

\* a JSON-like value: a leaf (str, int, bool, null) or a container; a dict
\* keeps its keys and its values in insertion order, a list keeps its items
Str(text) == [kind |-> "str", value |-> text, keys |-> <<>>, items |-> <<>>]
IntLeaf == [kind |-> "int", value |-> <<"4", "2">>, keys |-> <<>>, items |-> <<>>]
BoolLeaf == [kind |-> "bool", value |-> <<"T", "r", "u", "e">>, keys |-> <<>>, items |-> <<>>]
NullLeaf == [kind |-> "null", value |-> <<>>, keys |-> <<>>, items |-> <<>>]
Dict(keys, values) == [kind |-> "dict", value |-> <<>>, keys |-> keys, items |-> values]
List(items) == [kind |-> "list", value |-> <<>>, keys |-> <<>>, items |-> items]

personalInfo == <<"p", "e", "r", "s", "o", "n", "a", "l", "I", "n", "f", "o">>
name_key == <<"n", "a", "m", "e">>
full_name_key == <<"f", "u", "l", "l", "_", "n", "a", "m", "e">>
A_and_B == <<"A", "&", "B">>
plain_name == <<"J", "a", "n", "e">>

\* _escape_latex_special_chars_recursive on a tree that spares no leaf kind
RECURSIVE EscapeEveryLeaf(_)
EscapeEveryLeaf(data) ==
    IF data.kind \in {"dict", "list"}
    THEN [data EXCEPT !.items = [i \in DOMAIN data.items |-> EscapeEveryLeaf(data.items[i])],
                      !.keys = [i \in DOMAIN data.keys |-> EscapeLatexSpecialChars(data.keys[i])]]
    ELSE IF data.kind = "null" THEN Str(<<>>)
    ELSE [data EXCEPT !.value = EscapeLatexSpecialChars(data.value)]

\* _escape_latex_special_chars_recursive(data), lines 51-60: a new dict with
\* the same keys, a new list, an escaped string, or the value itself
RECURSIVE EscapeLatexSpecialCharsRecursive(_)
EscapeLatexSpecialCharsRecursive(data) ==
    IF data.kind = "str"
    THEN Str(EscapeLatexSpecialChars(data.value))
    ELSE IF data.kind = "dict"
    THEN Dict(data.keys,
              [i \in DOMAIN data.items |-> EscapeLatexSpecialCharsRecursive(data.items[i])])
    ELSE IF data.kind = "list"
    THEN List([i \in DOMAIN data.items |-> EscapeLatexSpecialCharsRecursive(data.items[i])])
    ELSE data

\* key in data, for the containers the constructor is handed
Contains(data, key) ==
    \/ data.kind = "dict" /\ key \in Range(data.keys)
    \/ data.kind = "list" /\ Str(key) \in Range(data.items)

\* ------------------------------------- the markup renderers (helper.py files)

Variants == {"minimalist", "twocolumn"}
output_path == <<"o", "u", "t", ".", "p", "d", "f">>

\* the names the module's import statements bind: minimalist imports shutil
\* under "if __name__ == '__main__'" only (line 274), twocolumn at line 5
ModuleImports(module) ==
    {"os", "re", "subprocess", "tempfile"}
        \cup (IF module.variant = "twocolumn" \/ module.run_as_main THEN {"shutil"} ELSE {})

\* the data trees a renderer is built from
RendererData ==
    {Dict(<<>>, <<>>),
     Dict(<<personalInfo>>, <<Dict(<<name_key>>, <<Str(A_and_B)>>)>>),
     Dict(<<name_key>>, <<Str(plain_name)>>),
     Dict(<<name_key, personalInfo>>, <<Str(personalInfo), Dict(<<>>, <<>>)>>),
     List(<<Str(plain_name)>>),
     List(<<Str(personalInfo)>>)}

\* __init__ that validates before it opens template.tex
NewHelperValidatesFirst(data, template_readable) ==
    LET self_data == EscapeLatexSpecialCharsRecursive(data)
    IN  IF ~Contains(self_data, personalInfo)
        THEN [result |-> Raise("ValueError", "Missing required section: personalInfo", <<>>, {}),
              instance |-> None]
        ELSE IF ~template_readable
        THEN [result |-> Raise("IOError", "Error reading template file", <<>>, {}),
              instance |-> None]
        ELSE [result |-> Return(<<>>), instance |-> Some([data |-> self_data])]

\* MinimalistResumeHelper(data) / TwocolumnResumeHelper(data): __init__ and
\* _validate_data
NewHelper(data, template_readable) ==
    LET self_data == EscapeLatexSpecialCharsRecursive(data)
    IN  IF ~template_readable
        THEN [result |-> Raise("IOError", "Error reading template file", <<>>, {}),
              instance |-> None]
        ELSE IF ~Contains(self_data, personalInfo)
        THEN [result |-> Raise("ValueError", "Missing required section: personalInfo", <<>>, {}),
              instance |-> None]
        ELSE [result |-> Return(<<>>), instance |-> Some([data |-> self_data])]

\* what one subprocess.run of pdflatex can do: return, raise
\* CalledProcessError (check=True), raise TimeoutExpired (timeout=30), or
\* raise FileNotFoundError because there is no pdflatex to start
PassOutcomes == {"ok", "nonzero", "timeout", "no_executable"}

CompileEnvs ==
    [pass1 : PassOutcomes, pass2 : PassOutcomes, pdf_exists : BOOLEAN, log_exists : BOOLEAN]

\* the pass whose exception leaves the try block of lines 235-238
FailedPass(env) ==
    IF env.pass1 /= "ok" THEN env.pass1
    ELSE IF env.pass2 /= "ok" THEN env.pass2
    ELSE "ok"

\* the two subprocess.run statements of lines 237-238 without check=True:
\* the second follows whatever the first did
SubprocessRunsUnchecked(env) == <<env.pass1, env.pass2>>

\* the subprocess.run calls made, in order: the statement of line 238 is
\* reached only when the one of line 237 raised nothing
SubprocessRuns(env) == IF env.pass1 = "ok" THEN <<env.pass1, env.pass2>> ELSE <<env.pass1>>

\* error_log of lines 240-244 and 261-265: the log file's text when it exists
LogParts(env) == IF env.log_exists THEN {"LaTeX Log"} ELSE {}

\* the RuntimeError of lines 245-252
CompilationFailed(env) ==
    [moved |-> FALSE,
     result |-> Raise("RuntimeError", "PDF compilation failed with pdflatex.", <<>>,
                      {"Command", "Return Code", "Stdout", "Stderr"} \cup LogParts(env))]

\* the RuntimeError of line 254
CompilationTimedOut ==
    [moved |-> FALSE,
     result |-> Raise("RuntimeError", "PDF compilation timed out after 30 seconds.", <<>>, {})]

\* subprocess.run found no pdflatex: its FileNotFoundError passes both handlers
NoExecutable ==
    [moved |-> FALSE,
     result |-> Raise("FileNotFoundError", "No such file or directory: 'pdflatex'", <<>>, {})]

\* the FileNotFoundError of lines 266-269
ArtifactMissing(env) ==
    [moved |-> FALSE,
     result |-> Raise("FileNotFoundError", "PDF output file not found after compilation.",
                      <<>>, LogParts(env))]

\* line 259 evaluated in a module that never bound the name shutil
ShutilUndefined ==
    [moved |-> FALSE, result |-> Raise("NameError", "name 'shutil' is not defined", <<>>, {})]

\* shutil.move(generated_pdf_path, output_path) and the return of line 270
MovedToOutputPath == [moved |-> TRUE, result |-> Return(output_path)]

\* export_to_pdf that reports a timeout the way it reports a non-zero exit
ExportToPdfTimeoutWithLog(module, env) ==
    IF FailedPass(env) \in {"nonzero", "timeout"} THEN CompilationFailed(env)
    ELSE IF FailedPass(env) = "no_executable" THEN NoExecutable
    ELSE IF ~env.pdf_exists THEN ArtifactMissing(env)
    ELSE IF "shutil" \notin ModuleImports(module) THEN ShutilUndefined
    ELSE MovedToOutputPath

\* export_to_pdf(output_path) of both helpers: two passes in a scratch
\* directory, then the move of resume.pdf or the FileNotFoundError
ExportToPdf(module, env) ==
    IF FailedPass(env) = "nonzero" THEN CompilationFailed(env)
    ELSE IF FailedPass(env) = "timeout" THEN CompilationTimedOut
    ELSE IF FailedPass(env) = "no_executable" THEN NoExecutable
    ELSE IF ~env.pdf_exists THEN ArtifactMissing(env)
    ELSE IF "shutil" \notin ModuleImports(module) THEN ShutilUndefined
    ELSE MovedToOutputPath

RendererFrame ==
    UNCHANGED <<registry_vars, thread_vars, escape_vars, facade_vars, docx_vars, date_vars,
                tree_vars, job_vars, naming_vars, body_vars>>

\* helper.py is loaded (by load_template, or run as a script) and its class is
\* called with a data tree
CreateHelper(variant, run_as_main, data, template_readable) ==
    LET out == NewHelper(data, template_readable)
    IN  /\ helper_module' = [variant |-> variant, run_as_main |-> run_as_main]
        /\ construction' = [data |-> Some(data), template_readable |-> template_readable,
                            result |-> out.result]
        /\ template_instance' = out.instance
        /\ export' = NoExport
        /\ UNCHANGED output_file
        /\ RendererFrame

\* template_instance.export_to_pdf(output_path)
Export(env) ==
    LET out == ExportToPdf(helper_module, env)
    IN  /\ ~template_instance.is_none
        /\ export' = [env |-> env, runs |-> SubprocessRuns(env), moved |-> out.moved,
                      result |-> out.result]
        /\ output_file' = IF out.moved THEN "pdf" ELSE output_file
        /\ UNCHANGED <<helper_module, construction, template_instance>>
        /\ RendererFrame

NextRenderer ==
    \/ \E v \in Variants, m \in BOOLEAN, d \in RendererData, r \in BOOLEAN :
           CreateHelper(v, m, d, r)
    \/ \E env \in CompileEnvs : Export(env)

SpecRenderer == Init /\ [][NextRenderer]_vars

\* the export last run got through both passes / was ended by a pass that
\* did the given thing
BothPassesSucceeded == export.env.pass1 = "ok" /\ export.env.pass2 = "ok"
PassEnded(how) ==
    export.env.pass1 = how \/ (export.env.pass1 = "ok" /\ export.env.pass2 = how)
ExportRan == export.result.status /= "none"

\* C12 as claimed: for minimalist and twocolumn alike, when both passes succeed
\* and resume.pdf exists, export_to_pdf moves it to output_path and returns
\* output_path; when both succeed and there is no resume.pdf, it raises the
\* artifact-missing error (FileNotFoundError) and writes nothing to output_path.
C12_Original ==
    (ExportRan /\ BothPassesSucceeded) =>
        IF export.env.pdf_exists
        THEN /\ export.result.status = "return"
             /\ export.result.value = output_path
             /\ export.moved
             /\ output_file = "pdf"
        ELSE /\ export.result.status = "raise"
             /\ export.result.exc = "FileNotFoundError"
             /\ ~export.moved

ExitErrorCarriesLog ==
    (ExportRan /\ PassEnded("nonzero")) =>
        /\ export.result.status = "raise"
        /\ export.result.exc = "RuntimeError"
        /\ export.result.text = "PDF compilation failed with pdflatex."
        /\ {"Command", "Return Code", "Stdout", "Stderr"} \subseteq export.result.attrs
        /\ ("LaTeX Log" \in export.result.attrs) = export.env.log_exists
        /\ ~export.moved

\* and what it carries when a pass timed out
TimeoutErrorCarriesNoLog ==
    (ExportRan /\ PassEnded("timeout")) =>
        /\ export.result.status = "raise"
        /\ export.result.exc = "RuntimeError"
        /\ export.result.text = "PDF compilation timed out after 30 seconds."
        /\ export.result.attrs = {}
        /\ ~export.moved

ConstructorRan == construction.result.status /= "none"
NoPersonalInfoSection ==
    ~(construction.data.value.kind = "dict" /\ personalInfo \in Range(construction.data.value.keys))

\* C14 as claimed: a data tree without a personalInfo section makes the
\* constructor raise the missing-section error and leave no instance; an
\* unreadable template.tex makes it raise IOError.
C14_Original ==
    ConstructorRan =>
        /\ NoPersonalInfoSection =>
               /\ construction.result.exc = "ValueError"
               /\ construction.result.text = "Missing required section: personalInfo"
               /\ template_instance.is_none
        /\ ~construction.template_readable => construction.result.exc = "IOError"

\* C14, as the code has it: the constructor reads template.tex first, so an
\* unreadable template.tex raises IOError whatever the data; with a readable
\* template.tex a mapping without the key personalInfo raises ValueError
\* "Missing required section: personalInfo"; no instance is left in either
\* case, and a mapping with the key and a readable template.tex gives one.
C14_SkeletonReadBeforeValidation ==
    ConstructorRan =>
        /\ ~construction.template_readable =>
               /\ construction.result.exc = "IOError"
               /\ template_instance.is_none
        /\ (construction.template_readable /\ construction.data.value.kind = "dict") =>
               IF NoPersonalInfoSection
               THEN /\ construction.result.exc = "ValueError"
                    /\ construction.result.text = "Missing required section: personalInfo"
                    /\ template_instance.is_none
               ELSE /\ construction.result.status = "return"
                    /\ ~template_instance.is_none

\* a mapping without personalInfo handed to the twocolumn helper whose
\* template.tex is readable
C14_Witness ==
    /\ helper_module.variant = "twocolumn"
    /\ ConstructorRan
    /\ construction.template_readable
    /\ construction.data.value.kind = "dict"
    /\ NoPersonalInfoSection
    /\ construction.result.exc = "ValueError"

\* C24: one export_to_pdf call runs the compiler at most twice and never
\* again after a run that failed: both runs happen exactly when the first
\* succeeded, and a first run that exits non-zero, times out or cannot start
\* is the only one.
C24_TwoPassesNoRetry ==
    ExportRan =>
        /\ Len(export.runs) \in {1, 2}
        /\ \A i \in 1..(Len(export.runs) - 1) : export.runs[i] = "ok"
        /\ (export.env.pass1 = "ok") <=> (Len(export.runs) = 2)
        /\ BothPassesSucceeded => export.runs = <<"ok", "ok">>

\* a first pass that times out where a second one would have succeeded: the
\* compiler ran once
C24_Witness ==
    /\ ExportRan
    /\ export.env.pass1 = "timeout"
    /\ export.env.pass2 = "ok"
    /\ export.runs = <<"timeout">>
    /\ export.result.exc = "RuntimeError"

\* ------------------------------------------- the DOCX path: docx_generator.py

\* the parts generate_resume_docx writes, in the order of lines 102-197; a
\* resume_data_dict is modelled by the set of parts its values make truthy
SectionOrder ==
    <<"name", "contact", "professional_summary", "experience", "education", "projects",
      "technologies_and_skills", "articles_and_publications", "certifications">>

DocxData ==
    {{}, {"name"}, {"name", "contact"}, {"name", "contact", "professional_summary"},
     {"experience", "education"}, {"certifications", "name"},
     {"name", "contact", "experience", "technologies_and_skills"},
     Range(SectionOrder)}

locked_resume_docx ==
    <<"l", "o", "c", "k", "e", "d", "_", "r", "e", "s", "u", "m", "e", ".", "d", "o", "c", "x">>
resume_docx == <<"r", "e", "s", "u", "m", "e", ".", "d", "o", "c", "x">>
DocxPaths == {locked_resume_docx, resume_docx}

\* what document.save(output_path) does: it returns, or raises one of these
SaveOutcomes ==
    {NoSave,
     [raises |-> TRUE, exc |-> "Exception", message |-> "Simulated save error"],
     [raises |-> TRUE, exc |-> "PermissionError", message |-> "Permission denied"],
     [raises |-> TRUE, exc |-> "FileNotFoundError", message |-> "No such file or directory"]}

\* the document built before the save: its parts in order
BuildDocument(data) == SelectSeq(SectionOrder, LAMBDA part : part \in data)

\* generate_resume_docx without the try/except around document.save
GenerateResumeDocxUnwrapped(data, path, save) ==
    [document |-> BuildDocument(data),
     saved |-> ~save.raises,
     result |-> IF save.raises THEN Raise(save.exc, save.message, <<>>, {})
                ELSE Return(path)]

\* generate_resume_docx(resume_data_dict, output_path), lines 87-205
GenerateResumeDocx(data, path, save) ==
    [document |-> BuildDocument(data),
     saved |-> ~save.raises,
     result |-> IF save.raises
                THEN Raise("IOError", "Error saving DOCX document to", path, {save.message})
                ELSE Return(path)]

GenerateDocxCall(data, path, save) ==
    LET out == GenerateResumeDocx(data, path, save)
    IN  /\ docx' = [data |-> data, output_path |-> path, save |-> save,
                    document |-> out.document, result |-> out.result]
        /\ docx_files' = IF out.saved THEN docx_files \cup {path} ELSE docx_files
        /\ UNCHANGED <<registry_vars, thread_vars, escape_vars, facade_vars, renderer_vars,
                       date_vars, tree_vars, job_vars, naming_vars, body_vars>>

NextDocx ==
    \E data \in DocxData, path \in DocxPaths, save \in SaveOutcomes :
        GenerateDocxCall(data, path, save)

SpecDocx == Init /\ [][NextDocx]_vars

\* C15: when document.save(output_path) raises, generate_resume_docx returns
\* no path and raises IOError whose message holds output_path and the text of
\* the exception that save raised.
C15_SaveFailureIsIOError ==
    (docx.result.status /= "none" /\ docx.save.raises) =>
        /\ docx.result.status = "raise"
        /\ docx.result.exc = "IOError"
        /\ docx.result.arg = docx.output_path
        /\ docx.save.message \in docx.result.attrs
        /\ docx.result.value = <<>>

\* the save of a full document failing with PermissionError on a path where
\* no document was saved
C15_Witness ==
    /\ docx.save.exc = "PermissionError"
    /\ docx.result.exc = "IOError"
    /\ docx.data = Range(SectionOrder)
    /\ docx.output_path = locked_resume_docx
    /\ locked_resume_docx \notin docx_files

\* --------------------------------- ExperienceItem and its date validators

AsciiDigits == <<"0", "1", "2", "3", "4", "5", "6", "7", "8", "9">>
\* one decimal digit outside ASCII, U+0662, which the regex class \d matches
\* and int() reads as 2
ARABIC_INDIC_DIGIT_TWO == "U+0662"
PresentLiteral == <<"P", "r", "e", "s", "e", "n", "t">>

\* the regex class \d of a str pattern, and int() of one such character
IsDigit(c) == c \in Range(AsciiDigits) \/ c = ARABIC_INDIC_DIGIT_TWO
DigitValue(c) == IF c = ARABIC_INDIC_DIGIT_TWO THEN 2 ELSE IndexIn(c, AsciiDigits) - 1
OneToNine == Range(AsciiDigits) \ {"0"}

\* int() of the digits s[i..j]
RECURSIVE IntOf(_, _, _)
IntOf(s, i, j) ==
    IF j < i THEN 0 ELSE 10 * IntOf(s, i, j - 1) + DigitValue(s[j])

CharAt(s, i) == IF i \in DOMAIN s THEN s[i] ELSE ""

\* how many characters the directive %m takes at position i (0: no match):
\* the alternatives 1[0-2] | 0[1-9] | [1-9], tried in this order
MatchMonth(s, i) ==
    IF CharAt(s, i) = "1" /\ CharAt(s, i + 1) \in {"0", "1", "2"} THEN 2
    ELSE IF CharAt(s, i) = "0" /\ CharAt(s, i + 1) \in OneToNine THEN 2
    ELSE IF CharAt(s, i) \in OneToNine THEN 1
    ELSE 0

\* the same for %d: 3[0-1] | [1-2]\d | 0[1-9] | [1-9] | " "[1-9]
MatchDay(s, i) ==
    IF CharAt(s, i) = "3" /\ CharAt(s, i + 1) \in {"0", "1"} THEN 2
    ELSE IF CharAt(s, i) \in {"1", "2"} /\ IsDigit(CharAt(s, i + 1)) THEN 2
    ELSE IF CharAt(s, i) = "0" /\ CharAt(s, i + 1) \in OneToNine THEN 2
    ELSE IF CharAt(s, i) \in OneToNine THEN 1
    ELSE IF CharAt(s, i) = " " /\ CharAt(s, i + 1) \in OneToNine THEN 2
    ELSE 0

IsLeap(year) == year % 4 = 0 /\ (year % 100 /= 0 \/ year % 400 = 0)
DaysInMonth(year, month) ==
    IF month = 2 THEN (IF IsLeap(year) THEN 29 ELSE 28)
    ELSE IF month \in {4, 6, 9, 11} THEN 30
    ELSE 31

\* datetime(year, month, day) accepts its arguments
DatetimeAccepts(year, month, day) ==
    year >= 1 /\ month \in 1..12 /\ day \in 1..DaysInMonth(year, month)

\* datetime.strptime(date_str, "%Y-%m") returns rather than raises ValueError:
\* the pattern matches a prefix, no character is left over, the date exists
StrptimeYearMonth(s) ==
    LET m == MatchMonth(s, 6)
    IN  /\ \A i \in 1..4 : IsDigit(CharAt(s, i))
        /\ CharAt(s, 5) = "-"
        /\ m > 0
        /\ Len(s) = 5 + m
        /\ DatetimeAccepts(IntOf(s, 1, 4), IntOf(s, 6, 5 + m), 1)

DigitsFrom(s, i, n) == IF CharAt(s, i) = " " THEN IntOf(s, i + 1, i + n - 1) ELSE IntOf(s, i, i + n - 1)

\* datetime.strptime(date_str, "%Y-%m-%d") returns
StrptimeYearMonthDay(s) ==
    LET m == MatchMonth(s, 6)
        d == MatchDay(s, 7 + m)
    IN  /\ \A i \in 1..4 : IsDigit(CharAt(s, i))
        /\ CharAt(s, 5) = "-"
        /\ m > 0
        /\ CharAt(s, 6 + m) = "-"
        /\ d > 0
        /\ Len(s) = 6 + m + d
        /\ DatetimeAccepts(IntOf(s, 1, 4), IntOf(s, 6, 5 + m), DigitsFrom(s, 7 + m, d))

InvalidDateFormat(date_str) == Raise("ValueError", "Invalid date format", date_str, {})

\* check_date_format(date_str), lines 54-64
CheckDateFormat(date_str) ==
    IF Len(date_str) = 7
    THEN (IF StrptimeYearMonth(date_str) THEN Return(date_str) ELSE InvalidDateFormat(date_str))
    ELSE IF Len(date_str) = 10
    THEN (IF StrptimeYearMonthDay(date_str) THEN Return(date_str)
          ELSE InvalidDateFormat(date_str))
    ELSE InvalidDateFormat(date_str)

\* validate_start_date and validate_end_date, lines 77-85
ValidateStartDate(value) == CheckDateFormat(value)
ValidateEndDate(value) == IF value = PresentLiteral THEN Return(value) ELSE CheckDateFormat(value)

\* years and the malformed strings of test_invalid_start_date_format
Y2021 == <<"2", "0", "2", "1">>
Y2020 == <<"2", "0", "2", "0">>
Y1900 == <<"1", "9", "0", "0">>
Y0000 == <<"0", "0", "0", "0">>
T_present == <<"p", "r", "e", "s", "e", "n", "t">>
T_01_2022 == <<"0", "1", "-", "2", "0", "2", "2">>
T_22_01_15 == <<"2", "2", "-", "0", "1", "-", "1", "5">>
T_January_2022 == <<"J", "a", "n", "u", "a", "r", "y", " ", "2", "0", "2", "2">>
T_20220115 == <<"2", "0", "2", "2", "0", "1", "1", "5">>
T_2022 == <<"2", "0", "2", "2">>
T_2022_1_1 == <<"2", "0", "2", "2", "-", "1", "-", "1">>

\* the strings the validators are run on: year, separator, month and, for the
\* long form, separator and day, drawn from the pieces below, and the strings
\* of the tests
YearPieces ==
    {Y2021, Y2020, Y1900, Y0000,
     <<"2", "0", "a", "1">>, <<ARABIC_INDIC_DIGIT_TWO, "0", "2", "1">>}
Separators == {<<"-">>, <<"/">>}
MonthPieces ==
    {<<"0", "1">>, <<"0", "2">>, <<"0", "4">>, <<"1", "2">>, <<"1", "3">>, <<"0", "0">>,
     <<" ", "1">>, <<"1">>}
DayPieces ==
    {<<"0", "1">>, <<"1", "5">>, <<"2", "9">>, <<"3", "0">>, <<"3", "1">>, <<"3", "2">>,
     <<"0", "0">>, <<" ", "5">>, <<"5">>, <<"1", ARABIC_INDIC_DIGIT_TWO>>}

TestStrings ==
    {PresentLiteral, T_present, T_01_2022, T_22_01_15, T_January_2022, T_20220115, T_2022,
     T_2022_1_1, <<>>}

DateStrings ==
    {y \o a \o m : y \in YearPieces, a \in Separators, m \in MonthPieces}
        \cup {y \o a \o m \o b \o d :
                  y \in YearPieces, a \in Separators, m \in MonthPieces,
                  b \in Separators, d \in DayPieces}
        \cup TestStrings

\* ExperienceItem(title=..., company=..., startDate=..., endDate=...) with
\* the field under test set to value and the other date valid, as the tests
\* build it: the validator's ValueError becomes the ValidationError
NewExperienceItem(field, value) ==
    /\ experience_item.field = ""
    /\ experience_item' =
           [field |-> field, value |-> value,
            result |-> IF field = "startDate" THEN ValidateStartDate(value)
                       ELSE ValidateEndDate(value)]
    /\ UNCHANGED <<registry_vars, thread_vars, escape_vars, facade_vars, renderer_vars,
                   docx_vars, tree_vars, job_vars, naming_vars, body_vars>>

NextDates ==
    \E field \in {"startDate", "endDate"}, value \in DateStrings :
        NewExperienceItem(field, value)

SpecDates == Init /\ [][NextDates]_vars

\* value is a real calendar date written YYYY-MM or YYYY-MM-DD: four digits
\* 0-9, '-', a two-digit month 01..12 and, in the long form, '-' and a
\* two-digit day that the month has in that year
TwoDigits(s, i) == CharAt(s, i) \in Range(AsciiDigits) /\ CharAt(s, i + 1) \in Range(AsciiDigits)
Number(s, i, j) == IntOf(s, i, j)
IsCalendarDate(s) ==
    /\ Len(s) \in {7, 10}
    /\ TwoDigits(s, 1) /\ TwoDigits(s, 3)
    /\ Number(s, 1, 4) >= 1
    /\ CharAt(s, 5) = "-"
    /\ TwoDigits(s, 6)
    /\ Number(s, 6, 7) \in 1..12
    /\ Len(s) = 10 =>
           /\ CharAt(s, 8) = "-"
           /\ TwoDigits(s, 9)
           /\ Number(s, 9, 10) >= 1
           /\ Number(s, 9, 10) <=
                  (CASE Number(s, 6, 7) = 2 ->
                            (IF Number(s, 1, 4) % 4 = 0
                                 /\ (Number(s, 1, 4) % 100 /= 0 \/ Number(s, 1, 4) % 400 = 0)
                             THEN 29 ELSE 28)
                     [] Number(s, 6, 7) \in {4, 6, 9, 11} -> 30
                     [] OTHER -> 31)

Accepted == experience_item.result.status = "return"

\* C16 as claimed: startDate is accepted exactly when it is a real calendar
\* date written as zero-padded YYYY-MM or YYYY-MM-DD; endDate is accepted
\* exactly when it is such a date or the literal "Present"; "Present" is
\* rejected as a startDate.
C16_Original ==
    /\ experience_item.field = "startDate" =>
           (Accepted <=> IsCalendarDate(experience_item.value))
    /\ experience_item.field = "endDate" =>
           (Accepted <=> (IsCalendarDate(experience_item.value)
                             \/ experience_item.value = PresentLiteral))

\* ------------------------------------------------ the sanitizer on data trees

\* sequences of at most n elements of S
SeqsUpTo(S, n) == UNION {[1..k -> S] : k \in 0..n}

TreeLeaves == {Str(A_and_B), Str(plain_name), IntLeaf, BoolLeaf, NullLeaf}
InnerTrees ==
    TreeLeaves \cup {List(<<Str(A_and_B), NullLeaf>>), Dict(<<full_name_key>>, <<Str(A_and_B)>>)}
TreeKeys == {personalInfo, name_key, full_name_key}

\* a dict has no key twice
KeySeqs == {k \in SeqsUpTo(TreeKeys, MaxItems) : \A i, j \in DOMAIN k : k[i] = k[j] => i = j}

\* the trees the sanitizer is run on: leaves, lists and dicts of at most
\* MaxItems entries, nested one level further through InnerTrees
Trees ==
    TreeLeaves
        \cup {List(items) : items \in SeqsUpTo(InnerTrees, MaxItems)}
        \cup UNION {{Dict(k, v) : v \in [DOMAIN k -> InnerTrees]} : k \in KeySeqs}

\* helper._escape_latex_special_chars_recursive(data): the value returned and
\* the argument as the call leaves it (the code assigns to no part of data)
Sanitize(data) ==
    /\ sanitize.data.is_none
    /\ sanitize' = [data |-> Some(data), data_after |-> Some(data),
                    returned |-> Some(EscapeLatexSpecialCharsRecursive(data))]
    /\ UNCHANGED <<registry_vars, thread_vars, escape_vars, facade_vars, renderer_vars,
                   docx_vars, date_vars, job_vars, naming_vars, body_vars>>

NextSanitize == \E data \in Trees : Sanitize(data)

SpecSanitize == Init /\ [][NextSanitize]_vars

\* b has the shape of a: the same kind, the same keys in the same order, as
\* many items in the same positions, each of the shape of its counterpart, and
\* a leaf that is no string is the same leaf
RECURSIVE SameShape(_, _)
SameShape(a, b) ==
    /\ b.kind = a.kind
    /\ b.keys = a.keys
    /\ Len(b.items) = Len(a.items)
    /\ \A i \in DOMAIN a.items : SameShape(a.items[i], b.items[i])
    /\ a.kind \notin {"str", "dict", "list"} => b = a

\* C17: the sanitizer leaves its argument as it was and returns a tree of
\* the same shape: dicts keep their keys in order, lists their length and
\* order, and every leaf that is no string (number, boolean, null) is returned
\* unchanged.
C17_SanitizeKeepsShape ==
    ~sanitize.data.is_none =>
        /\ sanitize.data_after = sanitize.data
        /\ SameShape(sanitize.data.value, sanitize.returned.value)

\* a dict of two entries, the first under a key holding '_', with a null
\* leaf and a nested list whose string was escaped
C17_Witness ==
    /\ ~sanitize.data.is_none
    /\ sanitize.data.value.kind = "dict"
    /\ sanitize.data.value.keys = <<full_name_key, personalInfo>>
    /\ sanitize.data.value.items = <<NullLeaf, List(<<Str(A_and_B), NullLeaf>>)>>
    /\ sanitize.returned.value /= sanitize.data.value

\* ---------------------------------------------------- renders run in threads

dot_pdf == <<".", "p", "d", "f">>
tmp_prefix == <<"t", "m", "p">>
caller_prefix == <<"o", "u", "t">>

\* the n-th name of the tempfile module: each differs from every name it
\* handed out before (NamedTemporaryFile and mkdtemp create what they name)
TmpName(n) == Append(tmp_prefix, ToString(n))

\* an output_path a caller of generate_pdf passes: its own file, as the test's
\* tmp_path is
CallerPath(t) == Append(caller_prefix, ToString(t)) \o dot_pdf

\* line 170 of template_manager.py
DefaultOutputPath(category, template_name) ==
    Join(<<category, <<underscore>>, template_name, dot_pdf>>)

Renderable == {<<resume, goodone>>, <<cover_letter, clgood>>}

JobFrame ==
    UNCHANGED <<registry_vars, thread_vars, escape_vars, facade_vars, renderer_vars,
                docx_vars, date_vars, tree_vars, naming_vars, body_vars>>

\* generate_document, PDF branch, lines 182-191: the scratch output file, then
\* the export
R_Facade(t) ==
    /\ render_job[t].pc = "idle"
    /\ tempfile_names' = tempfile_names + 1
    /\ render_job' = [render_job EXCEPT ![t] =
           [pc |-> "export", entry |-> "facade",
            output_path |-> TmpName(tempfile_names + 1) \o dot_pdf, tmpdir |-> <<>>]]
    /\ JobFrame

\* TemplateManager.generate_pdf(category, template_name, data, output_path),
\* lines 166-174
R_GeneratePdf(t, category, template_name, output_arg) ==
    /\ render_job[t].pc = "idle"
    /\ render_job' = [render_job EXCEPT ![t] =
           [pc |-> "export", entry |-> "generate_pdf",
            output_path |-> IF output_arg.is_none
                            THEN DefaultOutputPath(category, template_name)
                            ELSE output_arg.value,
            tmpdir |-> <<>>]]
    /\ UNCHANGED tempfile_names
    /\ JobFrame

\* export_to_pdf, lines 222-226: the scratch directory and resume.tex in it
R_EnterScratch(t) ==
    /\ render_job[t].pc = "export"
    /\ tempfile_names' = tempfile_names + 1
    /\ render_job' = [render_job EXCEPT ![t].pc = "compile",
                                        ![t].tmpdir = TmpName(tempfile_names + 1)]
    /\ JobFrame

\* lines 237-238: both passes write into the scratch directory
R_Compile(t) ==
    /\ render_job[t].pc = "compile"
    /\ render_job' = [render_job EXCEPT ![t].pc = "move"]
    /\ UNCHANGED tempfile_names
    /\ JobFrame

\* line 259: resume.pdf is moved to output_path
R_Move(t) ==
    /\ render_job[t].pc = "move"
    /\ render_job' = [render_job EXCEPT ![t].pc = "leave"]
    /\ UNCHANGED tempfile_names
    /\ JobFrame

\* the end of the with block: the scratch directory is removed, line 270
R_Leave(t) ==
    /\ render_job[t].pc = "leave"
    /\ render_job' = [render_job EXCEPT ![t].pc = "done", ![t].tmpdir = <<>>]
    /\ UNCHANGED tempfile_names
    /\ JobFrame

NextRenders ==
    \/ \E t \in Threads : R_Facade(t)
    \/ \E t \in Threads : \E r \in Renderable, o \in {None, Some(CallerPath(t))} :
           R_GeneratePdf(t, r[1], r[2], o)
    \/ \E t \in Threads : R_EnterScratch(t)
    \/ \E t \in Threads : R_Compile(t)
    \/ \E t \in Threads : R_Move(t)
    \/ \E t \in Threads : R_Leave(t)

SpecRenders == Init /\ [][NextRenders]_vars

Rendering(t) == render_job[t].pc \in {"export", "compile", "move", "leave"}

\* C18 as claimed: two renders running at the same time never share an output
\* file or a scratch directory, whether started through the facade or through
\* TemplateManager.generate_pdf, with or without an output_path.
C18_Original ==
    \A t, u \in Threads :
        (t /= u /\ Rendering(t) /\ Rendering(u)) =>
            /\ render_job[t].output_path /= render_job[u].output_path
            /\ render_job[t].tmpdir /= <<>> => render_job[t].tmpdir /= render_job[u].tmpdir

\* ------------------------------------- the helper class load_template binds

classic == <<"c", "l", "a", "s", "s", "i", "c">>
goodOne == <<"g", "o", "o", "d", "O", "n", "e">>
ClassicCoverLetterHelper == <<"C", "l", "a", "s", "s", "i", "c", "C", "o", "v", "e", "r", "L", "e", "t", "t", "e", "r", "H", "e", "l", "p", "e", "r">>
ClassicCoverLetterRenderer == <<"C", "l", "a", "s", "s", "i", "c", "C", "o", "v", "e", "r", "L", "e", "t", "t", "e", "r", "R", "e", "n", "d", "e", "r", "e", "r">>
ClassicResumeHelper == <<"C", "l", "a", "s", "s", "i", "c", "R", "e", "s", "u", "m", "e", "H", "e", "l", "p", "e", "r">>
GoodoneCoverLetterHelper == <<"G", "o", "o", "d", "o", "n", "e", "C", "o", "v", "e", "r", "L", "e", "t", "t", "e", "r", "H", "e", "l", "p", "e", "r">>
GoodOneResumeHelper == <<"G", "o", "o", "d", "O", "n", "e", "R", "e", "s", "u", "m", "e", "H", "e", "l", "p", "e", "r">>

BindCategories == {resume, cover_letter}
BindTemplates == {classic, goodOne}
\* identifiers a helper.py may define
Identifiers ==
    {ClassicCoverLetterHelper, ClassicCoverLetterRenderer, ClassicResumeHelper,
     GoodoneCoverLetterHelper, GoodoneResumeHelper, GoodOneResumeHelper}

\* a root holding the one variant category/template_name, whose helper.py
\* defines the identifiers of module
OneVariantTree(category, template_name, module) ==
    [dir \in Roots |->
        IF dir = TEST_TEMPLATES_DIR
        THEN Present(<<CategoryDir(category,
                          <<TemplateDir(template_name, <<helper_py, template_tex>>, module)>>)>>)
        ELSE Removed]

\* TemplateManager(TEST_TEMPLATES_DIR).load_template(category, template_name)
\* on that root, from an empty cache
BindHelperClass(category, template_name, module) ==
    /\ binding.result.status = "none"
    /\ binding' =
           [category |-> category, template_name |-> template_name, module |-> module,
            result |-> LoadTemplate(None, OneVariantTree(category, template_name, module),
                                    TEST_TEMPLATES_DIR, category, template_name).result]
    /\ UNCHANGED <<registry_vars, thread_vars, escape_vars, facade_vars, renderer_vars,
                   docx_vars, date_vars, tree_vars, job_vars, body_vars>>

NextNaming ==
    \E c \in BindCategories, n \in BindTemplates, m \in SUBSET Identifiers :
        BindHelperClass(c, n, m)

SpecNaming == Init /\ [][NextNaming]_vars

\* the identifier the convention gives each category and template name, with
\* the suffix "Helper", written out
ConventionName ==
    CASE binding.category = cover_letter /\ binding.template_name = classic ->
             ClassicCoverLetterHelper
      [] binding.category = resume /\ binding.template_name = classic -> ClassicResumeHelper
      [] binding.category = cover_letter /\ binding.template_name = goodOne ->
             GoodoneCoverLetterHelper
      [] binding.category = resume /\ binding.template_name = goodOne -> GoodoneResumeHelper
      [] OTHER -> <<>>

Bound == binding.result.status = "return"
BindingRan == binding.result.status /= "none"

\* C19 as claimed: category "cover_letter" with name "classic" binds
\* "ClassicCoverLetterRenderer", and binding succeeds exactly when the module
\* defines that identifier.
C19_Original ==
    (BindingRan /\ binding.category = cover_letter /\ binding.template_name = classic) =>
        /\ Bound <=> ClassicCoverLetterRenderer \in binding.module
        /\ Bound => binding.result.value.class = ClassicCoverLetterRenderer

\* C19, as the code has it: the identifier is template_name.capitalize()
\* (first character upper case, the rest lower case), then the category split
\* on '_' with each part capitalised, then the suffix "Helper", so
\* "cover_letter" with "classic" binds "ClassicCoverLetterHelper"; binding
\* succeeds exactly when the module defines that identifier, and the error
\* of a failed binding names it.
C19_BindsHelperSuffixName ==
    BindingRan =>
        /\ Bound <=> ConventionName \in binding.module
        /\ Bound => binding.result.value.class = ConventionName
        /\ ~Bound => /\ binding.result.exc = "ValueError"
                     /\ binding.result.arg = ConventionName

\* "cover_letter"/"classic" bound in a module that defines both the Helper
\* and the Renderer identifier
C19_Witness ==
    /\ binding.category = cover_letter
    /\ binding.template_name = classic
    /\ {ClassicCoverLetterHelper, ClassicCoverLetterRenderer} \subseteq binding.module
    /\ Bound
    /\ binding.result.value.class = ClassicCoverLetterHelper

\* the request names a document type or a template the catalog does not hold
NotCatalogued(req, catalog) ==
    \/ req.document_type \notin DOMAIN catalog
    \/ req.template \notin Range(catalog[req.document_type])

\* C20: a request whose document_type or template is not in the catalog the
\* handler obtained is answered 404, for pdf and for docx alike, and on the
\* way to that answer the handler allocated no scratch file, loaded no helper
\* module, constructed no renderer and ran neither the export nor the DOCX
\* builder.
C20_NotFoundBeforeAnyWork ==
    [][(/\ response = Pending
        /\ response' /= Pending
        /\ ~cached_templates'.is_none
        /\ NotCatalogued(request, cached_templates'.value)) =>
           /\ response'.status_code = 404
           /\ work' = NoWork
           /\ next_tmp' = next_tmp
           /\ tmp_files' = tmp_files
           /\ background_tasks' = background_tasks]_vars

\* a docx request for a resume template the installed catalog does not hold
C20_Witness ==
    /\ response.status_code = 404
    /\ request.format = DOCX
    /\ request.document_type = resume
    /\ request.template = nosuchtemplate
    /\ ~cached_templates.is_none
    /\ resume \in DOMAIN cached_templates.value
    /\ work = NoWork

\* ---------------------------------- the texts of the helpers and of the DOCX writer

\* the keys of the data tree
email_key == <<"e", "m", "a", "i", "l">>
phone_key == <<"p", "h", "o", "n", "e">>
location_key == <<"l", "o", "c", "a", "t", "i", "o", "n">>
website_key == <<"w", "e", "b", "s", "i", "t", "e">>
website_display_key ==
    <<"w", "e", "b", "s", "i", "t", "e", "_", "d", "i", "s", "p", "l", "a", "y">>
linkedin_key == <<"l", "i", "n", "k", "e", "d", "i", "n">>
professional_summary_key ==
    <<"p", "r", "o", "f", "e", "s", "s", "i", "o", "n", "a", "l", "_", "s", "u", "m", "m", "a", "r", "y">>
experience_key == <<"e", "x", "p", "e", "r", "i", "e", "n", "c", "e">>
company_key == <<"c", "o", "m", "p", "a", "n", "y">>
title_key == <<"t", "i", "t", "l", "e">>
startDate_key == <<"s", "t", "a", "r", "t", "D", "a", "t", "e">>
endDate_key == <<"e", "n", "d", "D", "a", "t", "e">>
details_key == <<"d", "e", "t", "a", "i", "l", "s">>
education_key == <<"e", "d", "u", "c", "a", "t", "i", "o", "n">>
degree_key == <<"d", "e", "g", "r", "e", "e">>
institution_key == <<"i", "n", "s", "t", "i", "t", "u", "t", "i", "o", "n">>
date_key == <<"d", "a", "t", "e">>
graduationYear_key == <<"g", "r", "a", "d", "u", "a", "t", "i", "o", "n", "Y", "e", "a", "r">>
field_key == <<"f", "i", "e", "l", "d">>
technologies_and_skills_key ==
    <<"t", "e", "c", "h", "n", "o", "l", "o", "g", "i", "e", "s", "_", "a", "n", "d", "_", "s", "k", "i", "l", "l", "s">>
projects_key == <<"p", "r", "o", "j", "e", "c", "t", "s">>
technologies_key == <<"t", "e", "c", "h", "n", "o", "l", "o", "g", "i", "e", "s">>
description_key == <<"d", "e", "s", "c", "r", "i", "p", "t", "i", "o", "n">>
achievements_key == <<"a", "c", "h", "i", "e", "v", "e", "m", "e", "n", "t", "s">>
articles_and_publications_key ==
    <<"a", "r", "t", "i", "c", "l", "e", "s", "_", "a", "n", "d", "_", "p", "u", "b", "l", "i", "c", "a", "t", "i", "o", "n", "s">>
publisher_key == <<"p", "u", "b", "l", "i", "s", "h", "e", "r">>
url_key == <<"u", "r", "l">>
certifications_key == <<"c", "e", "r", "t", "i", "f", "i", "c", "a", "t", "i", "o", "n", "s">>
issuer_key == <<"i", "s", "s", "u", "e", "r">>
NoneText == <<"N", "o", "n", "e">>
Your_Name == <<"Y", "o", "u", "r", " ", "N", "a", "m", "e">>
Present_text == <<"P", "r", "e", "s", "e", "n", "t">>
newline == <<"\n">>
comma_space == <<",", " ">>
semicolon_space == <<";", " ">>
dash_dash == <<" ", "-", "-", " ">>
item_prefix ==
    <<" ", " ", " ", " ", " ", " ", " ", " ", " ", " ", " ", " ", "\\", "i", "t", "e", "m", " ">>
entry_close == <<"\n", " ", " ", " ", " ", " ", " ", " ", " ">>
personalinfo_cmd == <<"\\", "p", "e", "r", "s", "o", "n", "a", "l", "i", "n", "f", "o">>
summary_cmd == <<"\\", "s", "u", "m", "m", "a", "r", "y">>
section_Experience ==
    <<"\\", "s", "e", "c", "t", "i", "o", "n", "*", "{", "E", "x", "p", "e", "r", "i", "e", "n", "c", "e", "}">>
experienceentry_cmd ==
    <<"\\", "e", "x", "p", "e", "r", "i", "e", "n", "c", "e", "e", "n", "t", "r", "y">>
section_Education ==
    <<"\\", "s", "e", "c", "t", "i", "o", "n", "*", "{", "E", "d", "u", "c", "a", "t", "i", "o", "n", "}">>
educationentry_cmd ==
    <<"\\", "e", "d", "u", "c", "a", "t", "i", "o", "n", "e", "n", "t", "r", "y">>
textbf_open == <<"\\", "t", "e", "x", "t", "b", "f", "{">>
colon_close == <<":", "}", " ">>
close_colon == <<"}", ":", " ">>
skills_cmd == <<"\\", "s", "k", "i", "l", "l", "s">>
section_Projects ==
    <<"\\", "s", "e", "c", "t", "i", "o", "n", "*", "{", "P", "r", "o", "j", "e", "c", "t", "s", "}">>
projectentry_cmd == <<"\\", "p", "r", "o", "j", "e", "c", "t", "e", "n", "t", "r", "y">>
personalinfosection ==
    <<"\\", "n", "e", "w", "c", "o", "m", "m", "a", "n", "d", "{", "\\", "p", "e", "r", "s", "o", "n", "a", "l", "i", "n", "f", "o", "s", "e", "c", "t", "i", "o", "n", "}", "{", "}">>
summarysection ==
    <<"\\", "n", "e", "w", "c", "o", "m", "m", "a", "n", "d", "{", "\\", "s", "u", "m", "m", "a", "r", "y", "s", "e", "c", "t", "i", "o", "n", "}", "{", "}">>
experiencesection ==
    <<"\\", "n", "e", "w", "c", "o", "m", "m", "a", "n", "d", "{", "\\", "e", "x", "p", "e", "r", "i", "e", "n", "c", "e", "s", "e", "c", "t", "i", "o", "n", "}", "{", "}">>
educationsection ==
    <<"\\", "n", "e", "w", "c", "o", "m", "m", "a", "n", "d", "{", "\\", "e", "d", "u", "c", "a", "t", "i", "o", "n", "s", "e", "c", "t", "i", "o", "n", "}", "{", "}">>
skillssection ==
    <<"\\", "n", "e", "w", "c", "o", "m", "m", "a", "n", "d", "{", "\\", "s", "k", "i", "l", "l", "s", "s", "e", "c", "t", "i", "o", "n", "}", "{", "}">>
projectssection ==
    <<"\\", "n", "e", "w", "c", "o", "m", "m", "a", "n", "d", "{", "\\", "p", "r", "o", "j", "e", "c", "t", "s", "s", "e", "c", "t", "i", "o", "n", "}", "{", "}">>
publicationssection ==
    <<"\\", "n", "e", "w", "c", "o", "m", "m", "a", "n", "d", "{", "\\", "p", "u", "b", "l", "i", "c", "a", "t", "i", "o", "n", "s", "s", "e", "c", "t", "i", "o", "n", "}", "{", "}">>
certificationssection ==
    <<"\\", "n", "e", "w", "c", "o", "m", "m", "a", "n", "d", "{", "\\", "c", "e", "r", "t", "i", "f", "i", "c", "a", "t", "i", "o", "n", "s", "s", "e", "c", "t", "i", "o", "n", "}", "{", "}">>
awardssection ==
    <<"\\", "n", "e", "w", "c", "o", "m", "m", "a", "n", "d", "{", "\\", "a", "w", "a", "r", "d", "s", "s", "e", "c", "t", "i", "o", "n", "}", "{", "}">>
nameplaceholder ==
    <<"\\", "n", "e", "w", "c", "o", "m", "m", "a", "n", "d", "{", "\\", "n", "a", "m", "e", "p", "l", "a", "c", "e", "h", "o", "l", "d", "e", "r", "}", "{", "}">>
leftcolumncontent ==
    <<"\\", "n", "e", "w", "c", "o", "m", "m", "a", "n", "d", "{", "\\", "l", "e", "f", "t", "c", "o", "l", "u", "m", "n", "c", "o", "n", "t", "e", "n", "t", "}", "{", "}">>
rightcolumncontent ==
    <<"\\", "n", "e", "w", "c", "o", "m", "m", "a", "n", "d", "{", "\\", "r", "i", "g", "h", "t", "c", "o", "l", "u", "m", "n", "c", "o", "n", "t", "e", "n", "t", "}", "{", "}">>
nameheader_cmd == <<"\\", "n", "a", "m", "e", "h", "e", "a", "d", "e", "r">>
contactinfo_cmd == <<"\\", "c", "o", "n", "t", "a", "c", "t", "i", "n", "f", "o">>
newline_cmd == <<"\\", "n", "e", "w", "l", "i", "n", "e", " ">>
skillslist_cmd == <<"\\", "s", "k", "i", "l", "l", "s", "l", "i", "s", "t">>
educationentryleft_cmd ==
    <<"\\", "e", "d", "u", "c", "a", "t", "i", "o", "n", "e", "n", "t", "r", "y", "l", "e", "f", "t">>
educationlistleft_cmd ==
    <<"\\", "e", "d", "u", "c", "a", "t", "i", "o", "n", "l", "i", "s", "t", "l", "e", "f", "t">>
summarysectioncontent_cmd ==
    <<"\\", "s", "u", "m", "m", "a", "r", "y", "s", "e", "c", "t", "i", "o", "n", "c", "o", "n", "t", "e", "n", "t">>
experienceentryright_cmd ==
    <<"\\", "e", "x", "p", "e", "r", "i", "e", "n", "c", "e", "e", "n", "t", "r", "y", "r", "i", "g", "h", "t">>
projectsentryright_cmd ==
    <<"\\", "p", "r", "o", "j", "e", "c", "t", "s", "e", "n", "t", "r", "y", "r", "i", "g", "h", "t">>
begin_document ==
    <<"\\", "b", "e", "g", "i", "n", "{", "d", "o", "c", "u", "m", "e", "n", "t", "}">>
end_document == <<"\\", "e", "n", "d", "{", "d", "o", "c", "u", "m", "e", "n", "t", "}">>


\* the texts docx_generator.py writes
NA_Company == <<"N", "/", "A", " ", "C", "o", "m", "p", "a", "n", "y">>
NA_Title == <<"N", "/", "A", " ", "T", "i", "t", "l", "e">>
NA_Institution ==
    <<"N", "/", "A", " ", "I", "n", "s", "t", "i", "t", "u", "t", "i", "o", "n">>
NA_Degree == <<"N", "/", "A", " ", "D", "e", "g", "r", "e", "e">>
NA_Project_Name ==
    <<"N", "/", "A", " ", "P", "r", "o", "j", "e", "c", "t", " ", "N", "a", "m", "e">>
NA_Certification ==
    <<"N", "/", "A", " ", "C", "e", "r", "t", "i", "f", "i", "c", "a", "t", "i", "o", "n">>
open_paren == <<" ", "(">>
close_paren == <<")">>
bar_sep == <<" ", "|", " ">>
in_sep == <<" ", "i", "n", " ">>
Technologies_label == <<"T", "e", "c", "h", "n", "o", "l", "o", "g", "i", "e", "s", ":", " ">>
colon_space == <<":", " ">>
available_at ==
    <<" ", "-", " ", "A", "v", "a", "i", "l", "a", "b", "l", "e", " ", "a", "t", ":", " ">>
verify_at == <<" ", "-", " ", "V", "e", "r", "i", "f", "y", " ", "a", "t", ":", " ">>
Professional_Summary ==
    <<"P", "r", "o", "f", "e", "s", "s", "i", "o", "n", "a", "l", " ", "S", "u", "m", "m", "a", "r", "y">>
Experience_heading == <<"E", "x", "p", "e", "r", "i", "e", "n", "c", "e">>
Education_heading == <<"E", "d", "u", "c", "a", "t", "i", "o", "n">>
Projects_heading == <<"P", "r", "o", "j", "e", "c", "t", "s">>
Skills_heading == <<"S", "k", "i", "l", "l", "s">>
Articles_and_Publications ==
    <<"A", "r", "t", "i", "c", "l", "e", "s", " ", "&", " ", "P", "u", "b", "l", "i", "c", "a", "t", "i", "o", "n", "s">>
Certifications_heading == <<"C", "e", "r", "t", "i", "f", "i", "c", "a", "t", "i", "o", "n", "s">>


\* sample values
jane_email == <<"j", "@", "x", ".", "i", "o">>
Dev == <<"D", "e", "v">>
start_2020_01 == <<"2", "0", "2", "0", "-", "0", "1">>
BSc == <<"B", "S", "c">>
MIT == <<"M", "I", "T">>
a_b == <<"a", "b">>


\* ------------------------------ body generation: what the section generators
\* ------------------------------ of both helpers and of the DOCX writer need

\* dict.get(key, default) on a dict of the tree
KeyIndex(d, key) == CHOOSE i \in DOMAIN d.keys : d.keys[i] = key
Get(d, key, default) == IF key \in Range(d.keys) THEN d.items[KeyIndex(d, key)] ELSE default

\* bool(value): what "if value:" tests
IsTrue(value) ==
    IF value.kind = "str" THEN value.value /= <<>>
    ELSE IF value.kind = "list" THEN value.items /= <<>>
    ELSE IF value.kind = "dict" THEN value.keys /= <<>>
    ELSE value.kind /= "null"

\* "for x in value": the items of a list, the keys of a dict, the characters
\* of a str; anything else is not iterable
Iterable(value) == value.kind \in {"list", "dict", "str"}
Iter(value) ==
    IF value.kind = "list" THEN value.items
    ELSE IF value.kind = "dict" THEN [i \in DOMAIN value.keys |-> Str(value.keys[i])]
    ELSE [i \in DOMAIN value.value |-> Str(<<value.value[i]>>)]

\* str(value) and "{value}" in an f-string, for a leaf
Format(value) == IF value.kind = "null" THEN NoneText ELSE value.value

\* sep.join(parts) for a list of str
JoinWith(sep, parts) ==
    Join([i \in 1..(2 * Len(parts) - 1) |-> IF i % 2 = 1 THEN parts[(i + 1) \div 2] ELSE sep])

\* sep.join(value): TypeError unless value is iterable and yields only str
JoinRaises(value) ==
    \/ ~Iterable(value)
    \/ \E i \in DOMAIN Iter(value) : Iter(value)[i].kind /= "str"
JoinOf(sep, value) == JoinWith(sep, [i \in DOMAIN Iter(value) |-> Iter(value)[i].value])

TypeError == Raise("TypeError", "", <<>>, {})
AttributeError == Raise("AttributeError", "", <<>>, {})

\* "for item in value: item.get(...)": TypeError when value cannot be
\* iterated, AttributeError when an item is no dict
LoopRaises(value) ==
    \/ ~Iterable(value)
    \/ \E i \in DOMAIN Iter(value) : Iter(value)[i].kind /= "dict"
LoopError(value) == IF ~Iterable(value) THEN TypeError ELSE AttributeError

\* _escape_latex_special_chars(text), lines 38-49: a value that is no str
\* comes back as it is
EscapeValue(text) ==
    IF text.kind = "str" THEN Str(EscapeLatexSpecialChars(text.value)) ELSE text

\* "{{{value}}}" in an f-string
Braced(text) == <<"{">> \o text \o <<"}">>

\* text.find(old, i): the first index from i on at which old stands, 0 if none
MatchAt(text, old, j) == \A k \in DOMAIN old : text[j + k - 1] = old[k]
Find(text, old, i) ==
    LET found == {j \in i..(Len(text) - Len(old) + 1) : MatchAt(text, old, j)}
    IN  IF found = {} THEN 0 ELSE CHOOSE j \in found : \A k \in found : j <= k

\* text.replace(old, new) for a non-empty old: every occurrence, left to right
RECURSIVE StrReplaceFrom(_, _, _, _)
StrReplaceFrom(text, old, new, i) ==
    LET j == Find(text, old, i)
    IN  IF j = 0 THEN SubSeq(text, i, Len(text))
        ELSE SubSeq(text, i, j - 1) \o new \o StrReplaceFrom(text, old, new, j + Len(old))
StrReplace(text, old, new) == StrReplaceFrom(text, old, new, 1)

EmptyDict == Dict(<<>>, <<>>)
EmptyList == List(<<>>)
EmptyStr == Str(<<>>)

\* -------------------------------------------- minimalist/helper.py, 62-203

\* _generate_personal_info, lines 62-82
GeneratePersonalInfo(data) ==
    LET pi == Get(data, personalInfo, EmptyDict)
    IN  IF pi.kind /= "dict" THEN AttributeError
        ELSE Return(personalinfo_cmd
                    \o Braced(Format(Get(pi, name_key, Str(Your_Name))))
                    \o Braced(Format(Get(pi, location_key, EmptyStr)))
                    \o Braced(Format(Get(pi, phone_key, EmptyStr)))
                    \o Braced(Format(Get(pi, email_key, EmptyStr)))
                    \o Braced(Format(Get(pi, website_key, EmptyStr))))

\* _generate_summary, lines 85-89
GenerateSummary(data) ==
    LET summary_text == Get(data, professional_summary_key, EmptyStr)
    IN  IF ~IsTrue(summary_text) THEN Return(<<>>)
        ELSE Return(summary_cmd \o Braced(Format(summary_text)))

\* "{exp.get('startDate', '')} -- {exp.get('endDate', 'Present')}"
Dates(exp) ==
    Format(Get(exp, startDate_key, EmptyStr)) \o dash_dash
        \o Format(Get(exp, endDate_key, Str(Present_text)))

\* the list comprehension of line 106: one "\item" line for each thing the
\* iteration over details_list yields
MinimalistDetailItems(details_list) ==
    [i \in DOMAIN Iter(details_list) |->
        item_prefix \o Format(EscapeValue(Iter(details_list)[i]))]

\* lines 102-106: the detail lines of one experience item
MinimalistDetails(exp) ==
    LET details_list == Get(exp, details_key, EmptyList)
    IN  IF IsTrue(details_list) THEN MinimalistDetailItems(details_list) ELSE <<>>

MinimalistExperienceRaises(exp) ==
    LET details_list == Get(exp, details_key, EmptyList)
    IN  IsTrue(details_list) /\ ~Iterable(details_list)

\* lines 98-109: the \experienceentry of one item
MinimalistExperienceEntry(exp) ==
    experienceentry_cmd
        \o Braced(Format(Get(exp, company_key, EmptyStr)))
        \o Braced(Format(Get(exp, title_key, EmptyStr)))
        \o Braced(Dates(exp))
        \o Braced(Format(Get(exp, location_key, EmptyStr)))
        \o Braced(newline \o JoinWith(newline, MinimalistDetails(exp)) \o entry_close)

\* _generate_experience_section, lines 91-110
GenerateExperienceSection(data) ==
    LET experiences == Get(data, experience_key, EmptyList)
    IN  IF ~IsTrue(experiences) THEN Return(<<>>)
        ELSE IF LoopRaises(experiences) THEN LoopError(experiences)
        ELSE IF \E i \in DOMAIN Iter(experiences) :
                    MinimalistExperienceRaises(Iter(experiences)[i])
        THEN TypeError
        ELSE Return(JoinWith(newline,
                <<section_Experience>>
                    \o [i \in DOMAIN Iter(experiences) |->
                           MinimalistExperienceEntry(Iter(experiences)[i])]))

\* lines 123-129: the details of one education item
EducationDetailsRaises(edu) ==
    LET details == Get(edu, details_key, EmptyList)
    IN  details.kind = "list" /\ IsTrue(details) /\ JoinRaises(details)

EducationDetails(edu) ==
    LET details == Get(edu, details_key, EmptyList)
    IN  IF details.kind = "list" /\ IsTrue(details) THEN JoinOf(<<" ">>, details)
        ELSE IF details.kind = "str" THEN details.value
        ELSE <<>>

\* edu.get("date", edu.get("graduationYear", ""))
EducationDate(edu) == Get(edu, date_key, Get(edu, graduationYear_key, EmptyStr))

\* _generate_education_section, lines 112-133
GenerateEducationSection(data) ==
    LET educations == Get(data, education_key, EmptyList)
    IN  IF ~IsTrue(educations) THEN Return(<<>>)
        ELSE IF LoopRaises(educations) THEN LoopError(educations)
        ELSE IF \E i \in DOMAIN Iter(educations) : EducationDetailsRaises(Iter(educations)[i])
        THEN TypeError
        ELSE Return(JoinWith(newline,
                <<section_Education>>
                    \o [i \in DOMAIN Iter(educations) |->
                           LET edu == Iter(educations)[i]
                           IN  educationentry_cmd
                                   \o Braced(Format(Get(edu, degree_key, EmptyStr)))
                                   \o Braced(Format(Get(edu, institution_key, EmptyStr)))
                                   \o Braced(Format(EducationDate(edu)))
                                   \o Braced(EducationDetails(edu))]))

\* line 145: "\textbf{category:} " and the items of the category
MinimalistSkillItems(skill_items) ==
    [i \in DOMAIN Iter(skill_items) |-> Iter(skill_items)[i].value]
MinimalistCategoryLine(category, skill_items) ==
    textbf_open \o category \o colon_close
        \o JoinWith(comma_space, MinimalistSkillItems(skill_items))

\* _generate_skills_section, lines 135-148
GenerateSkillsSection(data) ==
    LET skills_data == Get(data, technologies_and_skills_key, NullLeaf)
    IN  IF ~IsTrue(skills_data) THEN Return(<<>>)
        ELSE IF skills_data.kind = "list"
        THEN IF JoinRaises(skills_data) THEN TypeError
             ELSE Return(skills_cmd \o Braced(JoinOf(comma_space, skills_data)))
        ELSE IF skills_data.kind = "dict"
        THEN IF \E i \in DOMAIN skills_data.items : JoinRaises(skills_data.items[i])
             THEN TypeError
             ELSE Return(skills_cmd \o Braced(JoinWith(semicolon_space,
                      [i \in DOMAIN skills_data.keys |->
                          MinimalistCategoryLine(skills_data.keys[i], skills_data.items[i])])))
        ELSE Return(skills_cmd \o Braced(<<>>))

\* ", ".join(proj.get("technologies", [])), minimalist line 159 and
\* twocolumn line 134
ProjectTechnologies(proj) ==
    LET technologies == Get(proj, technologies_key, EmptyList)
    IN  IF JoinRaises(technologies) THEN TypeError
        ELSE Return(JoinOf(comma_space, technologies))

\* the \projectentry / \projectsentryright of one project
ProjectEntry(cmd, proj) ==
    cmd \o Braced(Format(Get(proj, name_key, EmptyStr)))
        \o Braced(ProjectTechnologies(proj).value)
        \o Braced(Format(Get(proj, description_key, EmptyStr)))

\* _generate_projects_section, lines 151-163
GenerateProjectsSection(data) ==
    LET projects == Get(data, projects_key, EmptyList)
    IN  IF ~IsTrue(projects) THEN Return(<<>>)
        ELSE IF LoopRaises(projects) THEN LoopError(projects)
        ELSE IF \E i \in DOMAIN Iter(projects) :
                    ProjectTechnologies(Iter(projects)[i]).status = "raise"
        THEN TypeError
        ELSE Return(JoinWith(newline,
                <<section_Projects>>
                    \o [i \in DOMAIN Iter(projects) |->
                           ProjectEntry(projectentry_cmd, Iter(projects)[i])]))

\* _generate_publications_section and _generate_certifications_section,
\* lines 165-171
GeneratePublicationsSection(data) == Return(<<>>)
GenerateCertificationsSection(data) == Return(<<>>)

\* the loop of lines 198-201 (twocolumn 162-163) from the k-th item of
\* replacements on: one text.replace for each placeholder command
RECURSIVE Populate(_, _, _)
Populate(populated_latex, replacements, k) ==
    IF k > Len(replacements) THEN populated_latex
    ELSE Populate(StrReplace(populated_latex, replacements[k][1], replacements[k][2].value),
                  replacements, k + 1)

\* the dict literal and the loop: the first generator that raises ends the
\* call, otherwise the skeleton is populated in the order of the dict
PopulateSkeleton(latex_template_string, replacements) ==
    IF \E k \in DOMAIN replacements : replacements[k][2].status = "raise"
    THEN LET k == CHOOSE k \in DOMAIN replacements :
                      /\ replacements[k][2].status = "raise"
                      /\ \A j \in 1..(k - 1) : replacements[j][2].status /= "raise"
         IN  replacements[k][2]
    ELSE Return(Populate(latex_template_string, replacements, 1))

\* the dict "replacements" of minimalist lines 187-196
MinimalistReplacements(data) ==
    << <<personalinfosection, GeneratePersonalInfo(data)>>,
       <<summarysection, GenerateSummary(data)>>,
       <<experiencesection, GenerateExperienceSection(data)>>,
       <<educationsection, GenerateEducationSection(data)>>,
       <<skillssection, GenerateSkillsSection(data)>>,
       <<projectssection, GenerateProjectsSection(data)>>,
       <<publicationssection, GeneratePublicationsSection(data)>>,
       <<certificationssection, GenerateCertificationsSection(data)>> >>

\* --------------------------------------------- twocolumn/helper.py, 62-165

\* _generate_name_header, lines 62-65
GenerateNameHeader(data) ==
    LET pi == Get(data, personalInfo, EmptyDict)
    IN  IF pi.kind /= "dict" THEN AttributeError
        ELSE Return(nameheader_cmd \o Braced(Format(Get(pi, name_key, Str(Your_Name)))))

\* line 88: the category and each of its items through the escaper
TwocolumnCategoryRaises(skill_items) ==
    \/ ~Iterable(skill_items)
    \/ \E i \in DOMAIN Iter(skill_items) : EscapeValue(Iter(skill_items)[i]).kind /= "str"

TwocolumnCategory(category) == EscapeLatexSpecialChars(category)
TwocolumnSkillItems(skill_items) ==
    [i \in DOMAIN Iter(skill_items) |-> EscapeValue(Iter(skill_items)[i]).value]
TwocolumnCategoryLine(category, skill_items) ==
    textbf_open \o TwocolumnCategory(category) \o close_colon
        \o JoinWith(comma_space, TwocolumnSkillItems(skill_items))

\* lines 80-91: the skills of the left column, as the list of what is
\* appended to content
LeftColumnSkills(data) ==
    LET skills_data == Get(data, technologies_and_skills_key, NullLeaf)
        skills_latex ==
            IF skills_data.kind = "list" THEN JoinOf(comma_space, skills_data)
            ELSE IF skills_data.kind = "dict"
            THEN JoinWith(newline_cmd,
                     [i \in DOMAIN skills_data.keys |->
                         TwocolumnCategoryLine(skills_data.keys[i], skills_data.items[i])])
            ELSE <<>>
    IN  IF IsTrue(skills_data) /\ skills_latex /= <<>>
        THEN <<skillslist_cmd \o Braced(skills_latex)>>
        ELSE <<>>

LeftColumnSkillsRaises(data) ==
    LET skills_data == Get(data, technologies_and_skills_key, NullLeaf)
    IN  /\ IsTrue(skills_data)
        /\ \/ skills_data.kind = "list" /\ JoinRaises(skills_data)
           \/ /\ skills_data.kind = "dict"
              /\ \E i \in DOMAIN skills_data.items : TwocolumnCategoryRaises(skills_data.items[i])

\* lines 94-102: the education summary of the left column
LeftColumnEducation(data) ==
    LET educations == Get(data, education_key, EmptyList)
    IN  IF ~IsTrue(educations) THEN <<>>
        ELSE <<educationlistleft_cmd
                 \o Braced(newline
                      \o JoinWith(newline,
                             [i \in DOMAIN Iter(educations) |->
                                 LET edu == Iter(educations)[i]
                                 IN  educationentryleft_cmd
                                         \o Braced(Format(Get(edu, degree_key, EmptyStr)))
                                         \o Braced(Format(Get(edu, institution_key, EmptyStr)))
                                         \o Braced(Format(EducationDate(edu)))])
                      \o newline)>>

\* _generate_left_column_content, lines 67-104
GenerateLeftColumnContent(data) ==
    LET pi == Get(data, personalInfo, EmptyDict)
        educations == Get(data, education_key, EmptyList)
    IN  IF pi.kind /= "dict" THEN AttributeError
        ELSE IF LeftColumnSkillsRaises(data) THEN TypeError
        ELSE IF IsTrue(educations) /\ LoopRaises(educations) THEN LoopError(educations)
        ELSE Return(JoinWith(newline,
                <<contactinfo_cmd
                    \o Braced(Format(Get(pi, email_key, EmptyStr)))
                    \o Braced(Format(Get(pi, phone_key, EmptyStr)))
                    \o Braced(Format(Get(pi, linkedin_key, EmptyStr)))
                    \o Braced(Format(Get(pi, website_key, EmptyStr)))>>
                    \o LeftColumnSkills(data)
                    \o LeftColumnEducation(data)))

\* the list comprehension of line 125: one "\item" line for each thing the
\* iteration over details_list yields
TwocolumnDetailItems(details_list) ==
    [i \in DOMAIN Iter(details_list) |-> item_prefix \o Format(Iter(details_list)[i])]

\* lines 124-125: the detail lines of one experience item
TwocolumnDetails(exp) == TwocolumnDetailItems(Get(exp, details_key, EmptyList))

TwocolumnExperienceRaises(exp) == ~Iterable(Get(exp, details_key, EmptyList))

\* lines 120-126: the \experienceentryright of one item
TwocolumnExperienceEntry(exp) ==
    experienceentryright_cmd
        \o Braced(Format(Get(exp, title_key, EmptyStr)))
        \o Braced(Format(Get(exp, company_key, EmptyStr)))
        \o Braced(Dates(exp))
        \o Braced(Format(Get(exp, location_key, EmptyStr)))
        \o Braced(newline \o JoinWith(newline, TwocolumnDetails(exp)) \o entry_close)

\* lines 111-113, 116-126 and 129-136: what is appended to content
RightColumnSummary(data) ==
    LET summary_text == Get(data, professional_summary_key, EmptyStr)
    IN  IF IsTrue(summary_text)
        THEN <<summarysectioncontent_cmd \o Braced(Format(summary_text))>>
        ELSE <<>>

RightColumnExperience(data) ==
    LET experiences == Get(data, experience_key, EmptyList)
    IN  IF ~IsTrue(experiences) THEN <<>>
        ELSE <<section_Experience>>
                 \o [i \in DOMAIN Iter(experiences) |->
                        TwocolumnExperienceEntry(Iter(experiences)[i])]

RightColumnProjects(data) ==
    LET projects == Get(data, projects_key, EmptyList)
    IN  IF ~IsTrue(projects) THEN <<>>
        ELSE <<section_Projects>>
                 \o [i \in DOMAIN Iter(projects) |->
                        ProjectEntry(projectsentryright_cmd, Iter(projects)[i])]

\* _generate_right_column_content, lines 106-148
GenerateRightColumnContent(data) ==
    LET experiences == Get(data, experience_key, EmptyList)
        projects == Get(data, projects_key, EmptyList)
    IN  IF IsTrue(experiences) /\ LoopRaises(experiences) THEN LoopError(experiences)
        ELSE IF /\ IsTrue(experiences)
                /\ \E i \in DOMAIN Iter(experiences) :
                       TwocolumnExperienceRaises(Iter(experiences)[i])
        THEN TypeError
        ELSE IF IsTrue(projects) /\ LoopRaises(projects) THEN LoopError(projects)
        ELSE IF /\ IsTrue(projects)
                /\ \E i \in DOMAIN Iter(projects) :
                       ProjectTechnologies(Iter(projects)[i]).status = "raise"
        THEN TypeError
        ELSE Return(JoinWith(newline \o newline,
                RightColumnSummary(data) \o RightColumnExperience(data)
                    \o RightColumnProjects(data)))

\* the dict "replacements" of twocolumn lines 156-160
TwocolumnReplacements(data) ==
    << <<nameplaceholder, GenerateNameHeader(data)>>,
       <<leftcolumncontent, GenerateLeftColumnContent(data)>>,
       <<rightcolumncontent, GenerateRightColumnContent(data)>> >>

\* generate_latex_content of the variant, on self.data and the skeleton that
\* __init__ read from template.tex
GenerateLatexContent(variant, latex_template_string, data) ==
    PopulateSkeleton(latex_template_string,
                     IF variant = "minimalist" THEN MinimalistReplacements(data)
                     ELSE TwocolumnReplacements(data))

\* the detail lines built for each experience item, when the body is built
DetailItems(variant, data) ==
    LET experiences == Get(data, experience_key, EmptyList)
    IN  IF ~IsTrue(experiences) THEN <<>>
        ELSE [i \in DOMAIN Iter(experiences) |->
                 IF variant = "minimalist" THEN MinimalistDetails(Iter(experiences)[i])
                 ELSE TwocolumnDetails(Iter(experiences)[i])]

\* the category names and the skill items the skills part of the body is
\* built from (minimalist lines 140-145, twocolumn lines 84-88), category by
\* category; a list of skills counts as one category without a name
SkillCategories(variant, data) ==
    LET skills_data == Get(data, technologies_and_skills_key, NullLeaf)
    IN  IF skills_data.kind /= "dict" THEN <<>>
        ELSE [i \in DOMAIN skills_data.keys |->
                 IF variant = "minimalist" THEN skills_data.keys[i]
                 ELSE TwocolumnCategory(skills_data.keys[i])]
SkillItems(variant, data) ==
    LET skills_data == Get(data, technologies_and_skills_key, NullLeaf)
    IN  IF skills_data.kind = "list" THEN <<MinimalistSkillItems(skills_data)>>
        ELSE IF skills_data.kind = "dict"
        THEN [i \in DOMAIN skills_data.items |->
                 IF variant = "minimalist" THEN MinimalistSkillItems(skills_data.items[i])
                 ELSE TwocolumnSkillItems(skills_data.items[i])]
        ELSE <<>>

\* ------------------------------------ core/docx_generator.py, lines 7-197

\* the write operations on the document: add_heading, add_paragraph (with
\* its style or alignment) and add_run (with its font attributes)
Heading(text, level) == [op |-> "heading", text |-> text, level |-> level, style |-> ""]
Paragraph(text, style) == [op |-> "paragraph", text |-> text, level |-> 0, style |-> style]
Run(text, style) == [op |-> "run", text |-> text, level |-> 0, style |-> style]

\* U+2013 between two dates, line 26
en_dash_sep == <<" ", "U+2013", " ">>

\* the truthy ones among the values of these keys, in this order
TruthyValues(d, keys) ==
    LET values == [i \in DOMAIN keys |-> Get(d, keys[i], NullLeaf)]
    IN  SelectSeq(values, IsTrue)

\* lines 32-37 (55-61, 78-83): a list gives one bullet for each detail, a
\* single str gives one bullet, anything else gives none
DetailBullets(details) ==
    IF details.kind = "list"
    THEN [i \in DOMAIN details.items |-> Paragraph(Format(details.items[i]), "ListBullet")]
    ELSE IF details.kind = "str" THEN <<Paragraph(details.value, "ListBullet")>>
    ELSE <<>>

\* _format_experience_item, lines 15-38
FormatExperienceItem(exp) ==
    LET dates == TruthyValues(exp, <<startDate_key, endDate_key>>)
        title_dates ==
            Format(Get(exp, title_key, Str(NA_Title)))
                \o (IF dates /= <<>>
                    THEN open_paren \o JoinOf(en_dash_sep, List(dates)) \o close_paren
                    ELSE <<>>)
        location == Get(exp, location_key, NullLeaf)
    IN  <<Heading(Format(Get(exp, company_key, Str(NA_Company))), 2),
          Paragraph(title_dates, "")>>
            \o (IF IsTrue(location) THEN <<Run(bar_sep \o Format(location), "italic")>> ELSE <<>>)
            \o DetailBullets(Get(exp, details_key, EmptyList))
            \o <<Paragraph(<<>>, "")>>

\* _format_education_item, lines 40-62
FormatEducationItem(edu) ==
    LET field == Get(edu, field_key, NullLeaf)
        degree_field ==
            Format(Get(edu, degree_key, Str(NA_Degree)))
                \o (IF IsTrue(field) THEN in_sep \o Format(field) ELSE <<>>)
        dated == IsTrue(Get(edu, date_key, NullLeaf)) \/ IsTrue(Get(edu, graduationYear_key, NullLeaf))
    IN  <<Heading(Format(Get(edu, institution_key, Str(NA_Institution))), 2),
          Paragraph(<<>>, ""),
          Run(degree_field, "bold")>>
            \o (IF dated
                THEN <<Run(open_paren \o Format(EducationDate(edu)) \o close_paren, "")>>
                ELSE <<>>)
            \o DetailBullets(Get(edu, details_key, EmptyList))
            \o <<Paragraph(<<>>, "")>>

\* line 69: the technologies are written when they are a non-empty list
ListsTechnologies(proj) ==
    LET technologies == Get(proj, technologies_key, NullLeaf)
    IN  IsTrue(technologies) /\ technologies.kind = "list"

\* _format_project_item, lines 65-84
FormatProjectItem(proj) ==
    LET technologies == Get(proj, technologies_key, NullLeaf)
        description == Get(proj, description_key, NullLeaf)
    IN  <<Heading(Format(Get(proj, name_key, Str(NA_Project_Name))), 2)>>
            \o (IF ListsTechnologies(proj)
                THEN <<Paragraph(<<>>, ""), Run(Technologies_label, "italic"),
                       Run(JoinOf(comma_space, technologies), "")>>
                ELSE <<>>)
            \o (IF IsTrue(description) THEN <<Paragraph(Format(description), "")>> ELSE <<>>)
            \o DetailBullets(Get(proj, details_key, Get(proj, achievements_key, EmptyList)))
            \o <<Paragraph(<<>>, "")>>

FormatProjectItemRaises(proj) ==
    ListsTechnologies(proj) /\ JoinRaises(Get(proj, technologies_key, NullLeaf))

\* _add_optional_section, lines 7-13, with the formatter of the section
FormatItem(item_formatter_func, item) ==
    IF item_formatter_func = "_format_experience_item" THEN FormatExperienceItem(item)
    ELSE IF item_formatter_func = "_format_education_item" THEN FormatEducationItem(item)
    ELSE FormatProjectItem(item)
AddOptionalSection(title, content_list, item_formatter_func) ==
    IF ~IsTrue(content_list) THEN <<>>
    ELSE <<Heading(title, 1)>>
             \o Join([i \in DOMAIN Iter(content_list) |->
                         FormatItem(item_formatter_func, Iter(content_list)[i])])
             \o <<Paragraph(<<>>, "")>>

\* lines 103-126: the name paragraph and the contact line
PersonalInfoParagraphs(pi) ==
    LET contact_lines ==
            TruthyValues(pi, <<email_key, phone_key, location_key, website_key, linkedin_key>>)
    IN  (IF IsTrue(Get(pi, name_key, NullLeaf))
         THEN <<Paragraph(<<>>, "center"), Run(Format(Get(pi, name_key, NullLeaf)), "bold24")>>
         ELSE <<>>)
            \o (IF contact_lines /= <<>>
                THEN <<Paragraph(JoinOf(bar_sep, List(contact_lines)), "center")>>
                ELSE <<>>)

\* lines 129-133 without the test of line 130
SummaryParagraphsUnconditional(resume_data_dict) ==
    <<Heading(Professional_Summary, 1),
      Paragraph(Format(Get(resume_data_dict, professional_summary_key, NullLeaf)), ""),
      Paragraph(<<>>, "")>>

\* lines 129-133
SummaryParagraphs(resume_data_dict) ==
    LET summary == Get(resume_data_dict, professional_summary_key, NullLeaf)
    IN  IF IsTrue(summary)
        THEN <<Heading(Professional_Summary, 1), Paragraph(Format(summary), ""),
               Paragraph(<<>>, "")>>
        ELSE <<>>

\* lines 145-159
SkillsParagraphs(resume_data_dict) ==
    LET skills_data == Get(resume_data_dict, technologies_and_skills_key, NullLeaf)
    IN  IF ~IsTrue(skills_data) THEN <<>>
        ELSE <<Heading(Skills_heading, 1)>>
                 \o (IF skills_data.kind = "list"
                     THEN [i \in DOMAIN skills_data.items |->
                              Paragraph(Format(skills_data.items[i]), "ListBullet")]
                     ELSE IF skills_data.kind = "dict"
                     THEN [i \in DOMAIN skills_data.keys |->
                              LET skills_list == skills_data.items[i]
                              IN  Paragraph(skills_data.keys[i] \o colon_space
                                        \o (IF skills_list.kind = "list"
                                            THEN JoinWith(comma_space,
                                                     [j \in DOMAIN skills_list.items |->
                                                         Format(skills_list.items[j])])
                                            ELSE Format(skills_list)), "")]
                     ELSE <<>>)
                 \o <<Paragraph(<<>>, "")>>

\* lines 165-178 and 185-196: one publication, one certification
FormatEntry(item, title_key_, default_title, detail_keys, url_label) ==
    LET entry_details == TruthyValues(item, detail_keys)
        url == Get(item, url_key, NullLeaf)
    IN  <<Paragraph(<<>>, ""), Run(Format(Get(item, title_key_, Str(default_title))), "bold")>>
            \o (IF entry_details /= <<>>
                THEN <<Run(open_paren \o JoinOf(comma_space, List(entry_details))
                               \o close_paren, "")>>
                ELSE <<>>)
            \o (IF IsTrue(url) THEN <<Run(url_label \o Format(url), "italic")>> ELSE <<>>)

FormatPublication(pub) ==
    FormatEntry(pub, title_key, NA_Title, <<publisher_key, date_key>>, available_at)
FormatCertification(cert) ==
    FormatEntry(cert, name_key, NA_Certification, <<issuer_key, date_key>>, verify_at)

\* lines 162-179 and 182-197
ListedSection(title, items) ==
    IF ~IsTrue(items) THEN <<>>
    ELSE <<Heading(title, 1)>>
             \o Join([i \in DOMAIN Iter(items) |->
                         IF title = Certifications_heading
                         THEN FormatCertification(Iter(items)[i])
                         ELSE FormatPublication(Iter(items)[i])])
             \o <<Paragraph(<<>>, "")>>

\* the item lists that generate_resume_docx loops over
ItemLists(resume_data_dict) ==
    [i \in 1..5 |->
        Get(resume_data_dict,
            <<experience_key, education_key, projects_key, articles_and_publications_key,
              certifications_key>>[i],
            EmptyList)]

\* the document generate_resume_docx has built when it reaches the save,
\* lines 98-197, or the error that ends it before
ResumeDocument(resume_data_dict) ==
    LET pi == Get(resume_data_dict, personalInfo, EmptyDict)
        lists == ItemLists(resume_data_dict)
        projects == lists[3]
    IN  IF pi.kind /= "dict" THEN AttributeError
        ELSE IF \E i \in DOMAIN lists : IsTrue(lists[i]) /\ LoopRaises(lists[i])
        THEN LET i == CHOOSE i \in DOMAIN lists :
                          /\ IsTrue(lists[i]) /\ LoopRaises(lists[i])
                          /\ \A j \in 1..(i - 1) : ~(IsTrue(lists[j]) /\ LoopRaises(lists[j]))
             IN  LoopError(lists[i])
        ELSE IF /\ IsTrue(projects)
                /\ \E i \in DOMAIN Iter(projects) : FormatProjectItemRaises(Iter(projects)[i])
        THEN TypeError
        ELSE Return(PersonalInfoParagraphs(pi)
                    \o SummaryParagraphs(resume_data_dict)
                    \o AddOptionalSection(Experience_heading, lists[1], "_format_experience_item")
                    \o AddOptionalSection(Education_heading, lists[2], "_format_education_item")
                    \o AddOptionalSection(Projects_heading, lists[3], "_format_project_item")
                    \o SkillsParagraphs(resume_data_dict)
                    \o ListedSection(Articles_and_Publications, lists[4])
                    \o ListedSection(Certifications_heading, lists[5]))

\* the bullets written for each experience item
DetailBulletTexts(resume_data_dict) ==
    LET experiences == Get(resume_data_dict, experience_key, EmptyList)
    IN  IF ~IsTrue(experiences) THEN <<>>
        ELSE [i \in DOMAIN Iter(experiences) |->
                 LET bullets == DetailBullets(Get(Iter(experiences)[i], details_key, EmptyList))
                 IN  [j \in DOMAIN bullets |-> bullets[j].text]]

\* ------------------------------------------ the data trees bodies are built from

\* a key the request did not set: dict(exclude_unset=True) leaves it out
Unset == [kind |-> "unset", value |-> <<>>, keys |-> <<>>, items |-> <<>>]
WithKey(d, key, value) ==
    IF value.kind = "unset" THEN d ELSE Dict(Append(d.keys, key), Append(d.items, value))

PersonalInfoTree == Dict(<<name_key, email_key>>, <<Str(plain_name), Str(jane_email)>>)

\* the details of an experience item: unset, null, a list, or a single str
DetailsValues ==
    {Unset, NullLeaf, EmptyList, List(<<Str(<<"a">>)>>), List(<<Str(A_and_B), Str(<<"b">>)>>),
     Str(a_b), Str(A_and_B)}

ExperienceItemTree(details) ==
    WithKey(Dict(<<title_key, company_key, startDate_key, endDate_key>>,
                 <<Str(Dev), Str(A_and_B), Str(start_2020_01), Str(Present_text)>>),
            details_key, details)

ExperienceValues ==
    {Unset, NullLeaf} \cup {List(<<ExperienceItemTree(details)>>) : details \in DetailsValues}

TechnologiesValues == {Unset, NullLeaf, List(<<Str(<<"a">>)>>)}

ProjectItemTree(technologies) ==
    WithKey(Dict(<<name_key>>, <<Str(plain_name)>>), technologies_key, technologies)

ProjectsValues ==
    {Unset, NullLeaf}
        \cup {List(<<ProjectItemTree(technologies)>>) : technologies \in TechnologiesValues}

\* the skills: a list, or a dict from category to list; a category may be
\* any text, the text of a placeholder command too
SkillsValues ==
    {Unset, NullLeaf, List(<<Str(A_and_B)>>),
     Dict(<<A_and_B>>, <<List(<<Str(A_and_B)>>)>>),
     Dict(<<projectssection>>, <<List(<<Str(<<"a">>)>>)>>)}

ResumeTree(experience, projects, skills) ==
    WithKey(WithKey(WithKey(Dict(<<personalInfo>>, <<PersonalInfoTree>>),
                            experience_key, experience),
                    projects_key, projects),
            technologies_and_skills_key, skills)

ResumeTrees ==
    {ResumeTree(experience, projects, skills) :
        experience \in ExperienceValues, projects \in ProjectsValues, skills \in SkillsValues}

\* ResumeData and its item models, app.py lines 69-123: details and
\* technologies are Optional[List[str]], the sections Optional[List[...]],
\* technologies_and_skills is Optional[List[str]]
IsListOfStr(value) ==
    value.kind = "list" /\ \A i \in DOMAIN value.items : value.items[i].kind = "str"
OptionalListOfStr(d, key) ==
    LET value == Get(d, key, NullLeaf) IN value.kind = "null" \/ IsListOfStr(value)
ExperienceItemAccepted(exp) == exp.kind = "dict" /\ OptionalListOfStr(exp, details_key)
ProjectItemAccepted(proj) == proj.kind = "dict" /\ OptionalListOfStr(proj, technologies_key)
OptionalItems(d, key) ==
    LET value == Get(d, key, NullLeaf)
    IN  \/ value.kind = "null"
        \/ /\ value.kind = "list"
           /\ \A i \in DOMAIN value.items :
                  IF key = experience_key THEN ExperienceItemAccepted(value.items[i])
                  ELSE ProjectItemAccepted(value.items[i])
ResumeDataAccepts(data) ==
    /\ OptionalItems(data, experience_key)
    /\ OptionalItems(data, projects_key)
    /\ OptionalListOfStr(data, technologies_and_skills_key)

\* the optional sections of a resume, each with a value that fills it
SectionKeys ==
    <<professional_summary_key, experience_key, education_key, projects_key,
      technologies_and_skills_key, articles_and_publications_key, certifications_key>>

Filled(key) ==
    IF key = professional_summary_key THEN Str(a_b)
    ELSE IF key = experience_key THEN List(<<ExperienceItemTree(List(<<Str(<<"a">>)>>))>>)
    ELSE IF key = education_key
    THEN List(<<Dict(<<degree_key, institution_key>>, <<Str(BSc), Str(MIT)>>)>>)
    ELSE IF key = projects_key THEN List(<<ProjectItemTree(Unset)>>)
    ELSE IF key = technologies_and_skills_key THEN List(<<Str(<<"a">>)>>)
    ELSE IF key = articles_and_publications_key
    THEN List(<<Dict(<<title_key>>, <<Str(a_b)>>)>>)
    ELSE List(<<Dict(<<name_key>>, <<Str(a_b)>>)>>)

\* how a section that is not filled arrives: left out, null, or empty
Hollow(key, how) ==
    IF how = "unset" THEN Unset
    ELSE IF how = "null" THEN NullLeaf
    ELSE IF key = professional_summary_key THEN EmptyStr ELSE EmptyList

Reverse(s) == [i \in DOMAIN s |-> s[Len(s) + 1 - i]]

RECURSIVE WithKeys(_, _, _, _)
WithKeys(d, keys, filled, how) ==
    IF keys = <<>> THEN d
    ELSE WithKeys(WithKey(d, Head(keys),
                          IF Head(keys) \in filled THEN Filled(Head(keys))
                          ELSE Hollow(Head(keys), how)),
                  Tail(keys), filled, how)

\* the personalInfo of a dict handed to generate_resume_docx: complete, with
\* a name only, with an empty name, or empty
PersonalInfoValues ==
    {PersonalInfoTree, Dict(<<name_key>>, <<Str(plain_name)>>),
     Dict(<<email_key, name_key>>, <<Str(jane_email), EmptyStr>>), EmptyDict}

SectionTrees ==
    {WithKeys(Dict(<<personalInfo>>, <<pi>>), keys, filled, how) :
        pi \in PersonalInfoValues,
        keys \in {SectionKeys, Reverse(SectionKeys)},
        filled \in SUBSET Range(SectionKeys),
        how \in {"unset", "null", "empty"}}

\* the skeletons a template.tex may hold: the placeholder commands of the
\* variant, each once and on a line of its own; one more that the variant
\* does not know; only some of them
Placeholders(variant) ==
    IF variant = "minimalist"
    THEN [k \in DOMAIN MinimalistReplacements(EmptyDict) |-> MinimalistReplacements(EmptyDict)[k][1]]
    ELSE [k \in DOMAIN TwocolumnReplacements(EmptyDict) |-> TwocolumnReplacements(EmptyDict)[k][1]]

SkeletonOf(commands) == JoinWith(newline, <<begin_document>> \o commands \o <<end_document>>)

Skeletons(variant) ==
    {SkeletonOf(Placeholders(variant)),
     SkeletonOf(<<awardssection>> \o Placeholders(variant)),
     SkeletonOf(Reverse(SubSeq(Placeholders(variant), 2, 3)))}

\* ------------------------------------------------- generating a body

BodyFrame ==
    UNCHANGED <<registry_vars, thread_vars, escape_vars, facade_vars, renderer_vars,
                docx_vars, date_vars, tree_vars, job_vars, naming_vars>>

\* template_class(data).generate_latex_content() of a markup variant whose
\* template.tex holds the skeleton
GenerateMarkupBody(variant, latex_template_string, data) ==
    LET self_data == NewHelper(data, TRUE).instance.value.data
        out == GenerateLatexContent(variant, latex_template_string, self_data)
    IN  /\ body.renderer = ""
        /\ body' = [renderer |-> variant, skeleton |-> latex_template_string,
                    data |-> Some(data), result |-> out, document |-> <<>>,
                    details |-> IF out.status = "return" THEN DetailItems(variant, self_data)
                                ELSE <<>>]
        /\ BodyFrame

\* generate_resume_docx(resume_data_dict, output_path) up to the save
GenerateDocxBody(resume_data_dict) ==
    LET out == ResumeDocument(resume_data_dict)
    IN  /\ body.renderer = ""
        /\ body' = [renderer |-> "docx", skeleton |-> <<>>, data |-> Some(resume_data_dict),
                    result |-> IF out.status = "return" THEN Return(<<>>) ELSE out,
                    document |-> out.value,
                    details |-> IF out.status = "return"
                                THEN DetailBulletTexts(resume_data_dict) ELSE <<>>]
        /\ BodyFrame

NextBody ==
    \/ \E variant \in Variants : \E latex_template_string \in Skeletons(variant) :
           \E data \in ResumeTrees : GenerateMarkupBody(variant, latex_template_string, data)
    \/ \E resume_data_dict \in ResumeTrees \cup SectionTrees : GenerateDocxBody(resume_data_dict)

SpecBody == Init /\ [][NextBody]_vars

\* the experience items of the tree the last body was generated from
BodyRan == body.renderer /= ""
BodyExperiences ==
    IF BodyRan /\ IsTrue(Get(body.data.value, experience_key, EmptyList))
    THEN Get(body.data.value, experience_key, EmptyList).items
    ELSE <<>>

\* the one entry a renderer writes for a detail: the DOCX writer the text
\* itself, a markup renderer an "\item" line with the escaped text
WholeEntries(renderer, text) ==
    IF renderer = "docx" THEN {text}
    ELSE {item_prefix \o EscapeLatexSpecialChars(text),
          item_prefix \o EscapeLatexSpecialChars(EscapeLatexSpecialChars(text))}

\* C21: in every renderer (DOCX, minimalist, twocolumn) an experience item
\* whose details value is a single non-empty string instead of a list is
\* rendered without an error as exactly one detail entry, one bullet or one
\* "\item" line, that holds the whole string.
C21_Original ==
    \A i \in DOMAIN BodyExperiences :
        LET details == Get(BodyExperiences[i], details_key, EmptyList)
        IN  (details.kind = "str" /\ details.value /= <<>>) =>
                /\ body.result.status = "return"
                /\ Len(body.details[i]) = 1
                /\ body.details[i][1] \in WholeEntries(body.renderer, details.value)

\* the replacements of the last markup body, and the skeleton they went into
MarkupBodyReturned == body.renderer \in Variants /\ body.result.status = "return"
BodyReplacements ==
    LET self_data == EscapeLatexSpecialCharsRecursive(body.data.value)
    IN  IF body.renderer = "minimalist" THEN MinimalistReplacements(self_data)
        ELSE TwocolumnReplacements(self_data)

\* how often old stands in text, counted as text.replace finds it
RECURSIVE CountFrom(_, _, _)
CountFrom(text, old, i) ==
    LET j == Find(text, old, i)
    IN  IF j = 0 THEN 0 ELSE 1 + CountFrom(text, old, j + Len(old))
Count(text, old) == CountFrom(text, old, 1)

\* the text in which the k-th placeholder command is looked for
PopulatedBefore(k) == Populate(body.skeleton, SubSeq(BodyReplacements, 1, k - 1), 1)

\* the same replacements in another order: reversed, or two neighbours swapped
SwapAt(s, k) ==
    [i \in DOMAIN s |-> IF i = k THEN s[k + 1] ELSE IF i = k + 1 THEN s[k] ELSE s[i]]
Reorderings(s) == {Reverse(s)} \cup {SwapAt(s, k) : k \in 1..(Len(s) - 1)}

\* C22: generate_latex_content puts the replacement of each placeholder
\* command in at most one place, its result is the same in whatever order the
\* commands are processed, and a command in the skeleton that the variant has
\* no replacement for stands in the output as it stood in the skeleton,
\* without an error.
C22_Original ==
    MarkupBodyReturned =>
        /\ \A k \in DOMAIN BodyReplacements :
               Count(PopulatedBefore(k), BodyReplacements[k][1]) <= 1
        /\ \A other \in Reorderings(BodyReplacements) :
               Populate(body.skeleton, other, 1) = body.result.value
        /\ Count(body.result.value, awardssection) = Count(body.skeleton, awardssection)

\* the part of the document an operation opens: the name run, the contact
\* line, or the level-1 heading of a section ("" for any other operation)
HeadingPart(text) ==
    IF text = Professional_Summary THEN "professional_summary"
    ELSE IF text = Experience_heading THEN "experience"
    ELSE IF text = Education_heading THEN "education"
    ELSE IF text = Projects_heading THEN "projects"
    ELSE IF text = Skills_heading THEN "technologies_and_skills"
    ELSE IF text = Articles_and_Publications THEN "articles_and_publications"
    ELSE IF text = Certifications_heading THEN "certifications"
    ELSE "unknown"
PartOpened(operation) ==
    IF operation.op = "run" /\ operation.style = "bold24" THEN "name"
    ELSE IF operation.op = "paragraph" /\ operation.style = "center" /\ operation.text /= <<>>
    THEN "contact"
    ELSE IF operation.op = "heading" /\ operation.level = 1 THEN HeadingPart(operation.text)
    ELSE ""

PartsOpened(document) ==
    LET opened == [i \in DOMAIN document |-> PartOpened(document[i])]
    IN  SelectSeq(opened, LAMBDA part : part /= "")

\* the key of the tree that holds a section
SectionKey(part) ==
    IF part = "professional_summary" THEN professional_summary_key
    ELSE IF part = "experience" THEN experience_key
    ELSE IF part = "education" THEN education_key
    ELSE IF part = "projects" THEN projects_key
    ELSE IF part = "technologies_and_skills" THEN technologies_and_skills_key
    ELSE IF part = "articles_and_publications" THEN articles_and_publications_key
    ELSE certifications_key

\* the part has something to show: a name, one contact field at least, a
\* section that is neither absent nor null nor empty
HasContent(resume_data_dict, part) ==
    LET pi == Get(resume_data_dict, personalInfo, EmptyDict)
    IN  IF part = "name" THEN IsTrue(Get(pi, name_key, NullLeaf))
        ELSE IF part = "contact"
        THEN \E key \in {email_key, phone_key, location_key, website_key, linkedin_key} :
                 IsTrue(Get(pi, key, NullLeaf))
        ELSE IsTrue(Get(resume_data_dict, SectionKey(part), NullLeaf))

DocxBodyReturned == body.renderer = "docx" /\ body.result.status = "return"

\* C23: the document generate_resume_docx builds opens its parts in the
\* fixed order name header, contact line, summary, experience, education,
\* projects, skills, publications, certifications, each part once, and opens
\* no part (writes no heading) for a section that is absent, null or empty.
C23_FixedSectionOrder ==
    DocxBodyReturned =>
        PartsOpened(body.document)
            = SelectSeq(SectionOrder, LAMBDA part : HasContent(body.data.value, part))

\* a tree whose keys come in reverse order, with experience, skills and
\* certifications filled and the other sections null: three headings, in the
\* order of the code
C23_Witness ==
    /\ DocxBodyReturned
    /\ body.data.value.keys = <<personalInfo>> \o Reverse(SectionKeys)
    /\ Get(body.data.value, education_key, Unset).kind = "null"
    /\ PartsOpened(body.document)
           = <<"name", "contact", "experience", "technologies_and_skills", "certifications">>

\* ------------------------------------------- the catalog and what it may hold

\* the names of the entries that are files, at both levels of any layout
PlainFileNames ==
    UNION {{e.name : e \in {x \in Range(layout) : ~x.isdir}}
           \cup UNION {{t.name : t \in {x \in Range(c.children) : ~x.isdir}} :
                          c \in {x \in Range(layout) : x.isdir}} :
           layout \in Layouts}

\* a name discovery is to skip: reserved ('__' in front) or hidden ('.' in front)
ReservedName(name) == StartsWith(name, dunder)
HiddenName(name) == StartsWith(name, <<".">>)

\* every name the catalog holds, keys and template names alike
CatalogNames(catalog) ==
    DOMAIN catalog \cup UNION {Range(catalog[c]) : c \in DOMAIN catalog}

\* C25: discovery takes only directories as categories and as variants, and
\* skips at both levels every file and every reserved or hidden name (a name
\* that begins with '__' or with '.'), so that no such name is a key of the
\* catalog or a template name in it.
C25_Original ==
    ~cached_templates.is_none =>
        \A name \in CatalogNames(cached_templates.value) :
            /\ name \notin PlainFileNames
            /\ ~ReservedName(name)
            /\ ~HiddenName(name)

\* ------------------------------------------------ registry: claims C27, C30

\* the variants installed under a storage root: what a scan of it finds now
InstalledUnder(dir) ==
    IF PathExists(fs, dir) THEN ScanRoot(fs[dir].entries) ELSE <<>>

\* every variant of the catalog is installed under the root
OnlyInstalledUnder(catalog, dir) ==
    \A c \in DOMAIN catalog :
        /\ c \in DOMAIN InstalledUnder(dir)
        /\ Range(catalog[c]) \subseteq Range(InstalledUnder(dir)[c])

\* C27: the catalog a TemplateManager built on storage root D reports (the
\* constructor and get_available_templates) and the one load_template tests
\* membership in hold only variants installed under D, whichever root the
\* instance that filled the process-wide cache was built on.
C27_Original ==
    /\ (last.op \in {"construct", "get_available_templates"}
          /\ ~Truthy(last.category) /\ last.result.status = "return") =>
            OnlyInstalledUnder(last.result.value, last.dir)
    /\ (last.op = "load_template"
          /\ last.result.text \notin {"Category not found", "Template not found"}
          /\ last.result.status /= "none"
          /\ ~(last.result.status = "raise" /\ last.result.exc = "FileNotFoundError"
                 /\ last.result.text = "Templates directory not found")) =>
            /\ last.category.value \in DOMAIN InstalledUnder(last.dir)
            /\ last.template_name \in Range(InstalledUnder(last.dir)[last.category.value])

\* the first scan since the reset completed and found no category at all
ScannedEmpty == ~first_scan.is_none /\ first_scan.value = <<>>

\* C30: after a scan that completed with an empty mapping the cache is
\* Populated with the empty catalog, and every later call is answered from it
\* (the empty catalog, or "Category not found" for a named category) without
\* listing the storage root again.
C30_EmptyCatalogIsCached ==
    ScannedEmpty =>
        /\ cached_templates = Some(<<>>)
        /\ root_listdir_calls = 1
        /\ (last.op \in RegistryCalls /\ ~last.cache_before.is_none) =>
              /\ ~last.listed
              /\ (last.op /= "load_template" /\ ~Truthy(last.category)) =>
                    last.result = Return(<<>>)
              /\ (last.op = "load_template" \/ Truthy(last.category)) =>
                    /\ last.result.status = "raise"
                    /\ last.result.text = "Category not found"

\* a catalog request answered with the empty catalog from the cache while the
\* instance's root holds the fixture by now
C30_Witness ==
    /\ ScannedEmpty
    /\ last.op = "get_available_templates"
    /\ ~last.cache_before.is_none
    /\ last.result = Return(<<>>)
    /\ fs[last.dir] = Present(LayoutFixture)
    /\ root_listdir_calls = 1

\* ------------------------------------------------ bodies: claims C28, C29

\* the skills of the tree the last body was generated from, and what the
\* renderer made of them
BodySkills == Get(body.data.value, technologies_and_skills_key, NullLeaf)
BodySelfData == EscapeLatexSpecialCharsRecursive(body.data.value)
EscapedOnce(leaf) == EscapeLatexSpecialChars(leaf.value)

\* C28: in both markup renderers every string of the data that goes into the
\* markup (each detail of an experience item, each skill item, each skill
\* category name) stands there as the escaper returns it for the original
\* string: escaped once, neither unescaped nor escaped a second time.
C28_Original ==
    MarkupBodyReturned =>
        /\ \A i \in DOMAIN BodyExperiences :
               LET details == Get(BodyExperiences[i], details_key, EmptyList)
               IN  IsListOfStr(details) =>
                       \A j \in DOMAIN details.items :
                           body.details[i][j] = item_prefix \o EscapedOnce(details.items[j])
        /\ IsListOfStr(BodySkills) =>
               \A j \in DOMAIN BodySkills.items :
                   SkillItems(body.renderer, BodySelfData)[1][j] = EscapedOnce(BodySkills.items[j])
        /\ BodySkills.kind = "dict" =>
               \A i \in DOMAIN BodySkills.keys :
                   /\ SkillCategories(body.renderer, BodySelfData)[i]
                          = EscapeLatexSpecialChars(BodySkills.keys[i])
                   /\ \A j \in DOMAIN BodySkills.items[i].items :
                          SkillItems(body.renderer, BodySelfData)[i][j]
                              = EscapedOnce(BodySkills.items[i].items[j])

\* C29: for every data tree the request models accept, optional fields set
\* to null included (the details of an experience item, the technologies of
\* a project, a whole section), the body generation of each renderer
\* (minimalist, twocolumn, DOCX) completes without raising.
C29_Original ==
    (BodyRan /\ ResumeDataAccepts(body.data.value)) => body.result.status = "return"

====
